---- MODULE Spec2Model ----
(***************************************************************************)
(* The intent-routing and retrieval backend of sap-chatflow:               *)
(* POST /api/chat of backend/index.js (the build with the secondary        *)
(* parameter extraction) and of the multi-item build (unnamed/part_009).   *)
(*                                                                         *)
(* Strings are sequences of atoms: a word, a punctuation mark or one       *)
(* blank " ".  The utterance is the sequence of its \w+ runs.              *)
(***************************************************************************)
EXTENDS Integers, Sequences, FiniteSets, TLC

VARIABLES
    build,              \* which backend file is deployed: "index" or "part_009"
    hasKey,             \* GROQ_API_KEY is set
    messageHistory,     \* req.body.messageHistory: the texts of its entries
    pc,                 \* where the handler is suspended
    originalUserQuery,  \* text of the last history entry
    decisionResult,     \* what the classification call returned
    decision,           \* the parsed classifier decision
    parameters,         \* the handler's `parameters`
    extractionResult,   \* what the extraction call returned
    extracted,          \* what extractParameters returned, NoParams before
    ranExtraction,      \* extractParameters was called
    prompt,             \* prompt of the explanation or clarification call
    finalResult,        \* what the explanation or clarification call returned
    llmCalls,           \* the model calls issued so far, in order
    searches,           \* the index searches done so far, in order
    toolRun,            \* the switch case that ran, "none" before
    response,           \* what was sent with res.json / res.status().json
    current,            \* the request whose handler the event loop runs: 1 or 2
    suspended,          \* the locals of the other request's handler invocation
    loaded,             \* the datasets, their indices and the tool list
    leaveApplications,  \* content of tools/leave_applications.json
    leaveResponse,      \* what POST /api/submit-leave sent last
    sessions,           \* the hook's `sessions` as of the last render
    activeSessionId,    \* the hook's `activeSessionId` as of the last render, 0 for null
    isBotTyping,        \* the page's `isBotTyping` as of the last render
    pending,            \* state updates queued since the last render, in order
    initialized,        \* initialized.current
    chatSessions,       \* the 'chatSessions' entry of localStorage
    abortControllerRef, \* abortControllerRef.current: the request it controls, 0 for null
    requests,           \* the chat requests of handleSendMessage
    clock               \* the last value Date.now() gave to a new session

\* the locals of one invocation of the chat handler, with what it sent
locals == <<messageHistory, pc, originalUserQuery, decisionResult, decision,
            parameters, extractionResult, extracted, ranExtraction, prompt,
            finalResult, llmCalls, searches, toolRun, response>>

\* what lives outside the running invocation
server == <<current, suspended, loaded, leaveApplications, leaveResponse>>

\* the state of the page in the browser
client == <<sessions, activeSessionId, isBotTyping, pending, initialized,
            chatSessions, abortControllerRef, requests, clock>>

vars == <<build, hasKey, messageHistory, pc, originalUserQuery, decisionResult,
          decision, parameters, extractionResult, extracted, ranExtraction,
          prompt, finalResult, llmCalls, searches, toolRun, response,
          current, suspended, loaded, leaveApplications, leaveResponse,
          sessions, activeSessionId, isBotTyping, pending, initialized,
          chatSessions, abortControllerRef, requests, clock>>

----------------------------------------------------------------------------
(* Bounds *)

MaxWords == 2

----------------------------------------------------------------------------
(* JavaScript values: undefined, null, strings and numbers *)

Undef == [t |-> "undefined", s |-> <<>>, n |-> 0]
Null == [t |-> "null", s |-> <<>>, n |-> 0]
Str(x) == [t |-> "string", s |-> x, n |-> 0]
Num(k) == [t |-> "number", s |-> <<>>, n |-> k]

Truthy(v) == \/ v.t = "string" /\ v.s # <<>>
             \/ v.t = "number" /\ v.n # 0

IsString(v) == v.t = "string"

\* parseInt(v, 10): the leading numeral of the string form, NaN otherwise
NumeralOf(a) ==
    CASE a = "0" -> 0 [] a = "5" -> 5 [] a = "8" -> 8 [] a = "10" -> 10
      [] a = "50" -> 50 [] a = "1001" -> 1001
      [] OTHER -> -1
IsNumeral(a) == NumeralOf(a) >= 0
NaN == [nan |-> TRUE, v |-> 0]
ParseInt(v) ==
    CASE v.t = "number" -> [nan |-> FALSE, v |-> v.n]
      [] v.t = "string" ->
            LET body == SelectSeq(v.s, LAMBDA a : a # " ")
            IN IF v.s # <<>> /\ body # <<>> /\ IsNumeral(body[1])
                  /\ (v.s[1] = " " \/ v.s[1] = body[1])
               THEN [nan |-> FALSE, v |-> NumeralOf(body[1])]
               ELSE NaN
      [] OTHER -> NaN

----------------------------------------------------------------------------
(* Strings as atom sequences *)

IsBlank(a) == a = " "

RECURSIVE TrimLeft(_)
TrimLeft(s) == IF s # <<>> /\ IsBlank(Head(s)) THEN TrimLeft(Tail(s)) ELSE s
RECURSIVE TrimRight(_)
TrimRight(s) ==
    IF s # <<>> /\ IsBlank(s[Len(s)]) THEN TrimRight(SubSeq(s, 1, Len(s) - 1)) ELSE s
Trim(s) == TrimRight(TrimLeft(s))

\* lower-casing of an atom (String.prototype.toLowerCase, /i)
Lower(a) ==
    CASE a = "Less" -> "less" [] a = "AND" -> "and" [] a = "Open" -> "open"
      [] a = "PUMP" -> "pump" [] a = "BEARING" -> "bearing" [] a = "VALVE" -> "valve"
      [] a = "FB60" -> "fb60" [] a = "TechCorp" -> "techcorp"
      [] a = "PURCHASE" -> "purchase" [] a = "ORDER" -> "order"
      [] a = "VENDOR" -> "vendor" [] a = "INVOICE" -> "invoice" [] a = "ZZQQ" -> "zzqq"
      [] OTHER -> a
LowerSeq(s) == [i \in 1..Len(s) |-> Lower(s[i])]

----------------------------------------------------------------------------
(* Data files, loaded once at start *)

\* StockLevel is the 'Stock Level' column
stockList == <<
    [Material |-> <<"PUMP", "-", "1001">>, Description |-> <<"centrifugal", " ", "pump">>,
     StockLevel |-> Num(50), Plant |-> "1000"],
    [Material |-> <<"BEARING", "-", "2002">>, Description |-> <<"ball", " ", "bearing">>,
     StockLevel |-> Str(<<"8">>), Plant |-> "1000"],
    [Material |-> <<"VALVE", "-", "3003">>, Description |-> <<"gate", " ", "valve">>,
     StockLevel |-> Str(<<"n/a">>), Plant |-> "2000"] >>

salesOrderData == <<
    [id |-> 1, customer |-> <<"TechCorp">>, material |-> <<"pump">>,
     quantity |-> 5, status |-> <<"Open">>, value |-> 100],
    [id |-> 2, customer |-> <<"TechCorp">>, material |-> <<"bearing">>,
     quantity |-> 10, status |-> <<"Delivered">>, value |-> 50],
    [id |-> 3, customer |-> <<"Pump", " ", "World">>, material |-> <<"valve">>,
     quantity |-> 1, status |-> <<"Open">>, value |-> 10] >>

purchaseOrderData == <<
    [id |-> 11, vendor |-> <<"SteelCo">>, material |-> <<"bearing">>,
     quantity |-> 20, status |-> <<"Ordered">>, value |-> 200],
    [id |-> 12, vendor |-> <<"SteelCo">>, material |-> <<"valve">>,
     quantity |-> 2, status |-> <<"Delivered">>, value |-> 30],
    [id |-> 13, vendor |-> <<"Valve", " ", "Works">>, material |-> <<"pump">>,
     quantity |-> 3, status |-> <<"Ordered">>, value |-> 90] >>

knowledgeData == <<
    [term |-> <<"FB60">>, definition |-> <<"enter", " ", "vendor", " ", "invoice">>],
    [term |-> <<"purchase", " ", "order">>, definition |-> <<"order", " ", "to", " ", "vendor">>] >>

----------------------------------------------------------------------------
(* fuse.js: approximate search over the text fields of a list of records.  *)
(* The score of a pattern against a field is the share of the pattern's    *)
(* atoms that have no counterpart in the field, in hundredths; atoms are   *)
(* compared without case and plural endings.  A record's score is the      *)
(* best of its keys; results come best first, ties in list order.          *)

FuseThreshold == 40
KnowledgeThreshold == 45

Stem(a) ==
    LET l == Lower(a)
    IN CASE l = "pumps" -> "pump" [] l = "bearings" -> "bearing"
         [] l = "valves" -> "valve" [] l = "orders" -> "order"
         [] OTHER -> l

FieldScore(pattern, text) ==
    LET sig == SelectSeq(pattern, LAMBDA a : ~IsBlank(a))
        miss == {i \in 1..Len(sig) :
                    \A j \in 1..Len(text) : Stem(text[j]) # Stem(sig[i])}
    IN IF sig = <<>> THEN 100 ELSE (100 * Cardinality(miss)) \div Len(sig)

ItemScore(item, keys, pattern) ==
    LET scores == {FieldScore(pattern, item[k]) : k \in keys}
    IN CHOOSE m \in scores : \A o \in scores : m <= o

\* results best first, ties in list order
RECURSIVE OrderHits(_, _, _, _)
OrderHits(S, docs, keys, pattern) ==
    IF S = {} THEN <<>>
    ELSE LET m == CHOOSE i \in S : \A j \in S :
                    \/ ItemScore(docs[i], keys, pattern) < ItemScore(docs[j], keys, pattern)
                    \/ /\ ItemScore(docs[i], keys, pattern) = ItemScore(docs[j], keys, pattern)
                       /\ i <= j
         IN <<[item |-> docs[m], score |-> ItemScore(docs[m], keys, pattern),
               refIndex |-> m]>>
                \o OrderHits(S \ {m}, docs, keys, pattern)

\* Fuse.search(query): a non-string query is a logical query without
\* conditions and matches nothing
FuseSearch(docs, keys, threshold, query) ==
    IF IsString(query)
    THEN OrderHits({i \in 1..Len(docs) : ItemScore(docs[i], keys, query.s) <= threshold},
                   docs, keys, query.s)
    ELSE <<>>

Items(results) == [i \in 1..Len(results) |-> results[i].item]

stockFuseSearch(query) ==
    FuseSearch(stockList, {"Material", "Description"}, FuseThreshold, query)

salesOrderFuseKeys(b) == IF b = "part_009" THEN {"customer", "material"} ELSE {"customer"}
salesOrderFuseSearch(b, query) ==
    FuseSearch(salesOrderData, salesOrderFuseKeys(b), FuseThreshold, query)

purchaseOrderFuseKeys(b) == IF b = "part_009" THEN {"vendor", "material"} ELSE {"vendor"}
purchaseOrderFuseSearch(b, query) ==
    FuseSearch(purchaseOrderData, purchaseOrderFuseKeys(b), FuseThreshold, query)

knowledgeFuseSearch(query) ==
    FuseSearch(knowledgeData, {"term", "definition"}, KnowledgeThreshold, query)

----------------------------------------------------------------------------
(* extractMultipleItems (multi-item build) *)

IsDelimiter(a) == Lower(a) \in {"and", "or", ",", "&"}

LeadingBlanks(s) ==
    IF \A i \in 1..Len(s) : IsBlank(s[i]) THEN Len(s)
    ELSE (CHOOSE i \in 1..Len(s) : ~IsBlank(s[i]) /\ \A j \in 1..(i - 1) : IsBlank(s[j])) - 1

Drop(s, k) == SubSeq(s, k + 1, Len(s))

\* String.prototype.split(/\s+(?:and|or|,|&)\s+|,\s*/i): s is what is left to
\* scan, k its leading blanks, cur the item being read, acc the items read
RECURSIVE SplitFrom(_, _, _, _)
SplitFrom(s, k, cur, acc) ==
    IF s = <<>> THEN Append(acc, cur)
    ELSE IF /\ k >= 1 /\ Len(s) >= k + 2
            /\ IsDelimiter(s[k + 1]) /\ IsBlank(s[k + 2])
    THEN SplitFrom(Drop(s, k + 1 + LeadingBlanks(Drop(s, k + 1))),
                   LeadingBlanks(Drop(s, k + 1 + LeadingBlanks(Drop(s, k + 1)))),
                   <<>>, Append(acc, cur))
    ELSE IF Head(s) = ","
    THEN SplitFrom(Drop(s, 1 + LeadingBlanks(Tail(s))),
                   LeadingBlanks(Drop(s, 1 + LeadingBlanks(Tail(s)))),
                   <<>>, Append(acc, cur))
    ELSE SplitFrom(Tail(s), LeadingBlanks(Tail(s)), Append(cur, Head(s)), acc)

SplitItems(s) == SplitFrom(s, LeadingBlanks(s), <<>>, <<>>)

\* .map(item => item.trim()).filter(item => item.length > 0)
TrimmedItems(parts) ==
    SelectSeq([i \in 1..Len(parts) |-> Trim(parts[i])], LAMBDA p : Len(p) > 0)

\* return items.length > 0 ? items : [itemString.trim()]
ItemsOrWhole(items, whole) == IF Len(items) > 0 THEN items ELSE <<Trim(whole)>>

\* [threw, items]: a truthy non-string has no split method (TypeError)
extractMultipleItems(itemString) ==
    IF ~Truthy(itemString) THEN [threw |-> FALSE, items |-> <<>>]
    ELSE IF ~IsString(itemString) THEN [threw |-> TRUE, items |-> <<>>]
    ELSE [threw |-> FALSE,
          items |-> ItemsOrWhole(TrimmedItems(SplitItems(itemString.s)), itemString.s)]

\* first-seen-order union of result lists, one entry per identity
RECURSIVE DedupInto(_, _, _)
DedupInto(acc, list, key) ==
    IF list = <<>> THEN acc
    ELSE LET h == Head(list)
         IN DedupInto(IF \E i \in 1..Len(acc) : acc[i][key] = h[key]
                      THEN acc ELSE Append(acc, h),
                      Tail(list), key)

----------------------------------------------------------------------------
(* Parameter objects: one JavaScript value per key, Undef for a missing key *)

ParamKeys == {"term", "material_id", "comparison", "quantity",
              "customer", "vendor", "status", "material"}

NoParams == [k \in ParamKeys |-> Undef]

Params(f) == [k \in ParamKeys |-> IF k \in DOMAIN f THEN f[k] ELSE Undef]

ObjectKeys(p) == {k \in ParamKeys : p[k] # Undef}

----------------------------------------------------------------------------
(* Texts the handler sends or receives *)

\* A model reply as a string: blanks before its first character, the first
\* character after them ("{", "[", a quote "q", the n of null, or any other
\* character "x"), whether the JSON value it opens is complete, and the
\* value written in it.
NoBody == [type |-> "", tool_name |-> "", hasParameters |-> FALSE,
           parameters |-> NoParams, content |-> ""]

Raw(ws, open, closed, body, id) ==
    [ws |-> ws, open |-> open, closed |-> closed, body |-> body, id |-> id]

NoRaw == Raw(0, "", FALSE, NoBody, "")

\* the three kinds of text of a payload: a literal of the code, a literal
\* with an interpolated value, and a model reply passed through
FixedText(m) == [k |-> "fixed", m |-> m, raw |-> NoRaw, arg |-> Undef]
TemplateText(m, v) == [k |-> "template", m |-> m, raw |-> NoRaw, arg |-> v]
ReplyText(r) == [k |-> "reply", m |-> "", raw |-> r, arg |-> Undef]
NoText == [k |-> "", m |-> "", raw |-> NoRaw, arg |-> Undef]

\* JSON.parse: [ok, kind, body]
JsonParse(raw) ==
    IF raw.closed /\ raw.open \in {"{", "[", "q", "n"}
    THEN [ok |-> TRUE,
          kind |-> CASE raw.open = "{" -> "object" [] raw.open = "[" -> "array"
                     [] raw.open = "q" -> "string" [] OTHER -> "null",
          body |-> IF raw.open = "{" THEN raw.body ELSE NoBody]
    ELSE [ok |-> FALSE, kind |-> "", body |-> NoBody]

\* variant: the reply is tested without trim()
StartsWithBraceUntrimmed(raw) == raw.ws = 0 /\ raw.open = "{"

\* decisionString.trim().startsWith('{')
StartsWithBrace(raw) == raw.open = "{"

----------------------------------------------------------------------------
(* callGroqLLM *)

NoResult == [error |-> FALSE, status |-> 0, message |-> "", content |-> NoRaw]

\* what axios.post does: an HTTP error response, no response, a failure
\* before sending, or a completion whose content may be empty
HttpError(status) == [kind |-> "response", status |-> status, content |-> NoRaw]
NoAnswer == [kind |-> "request", status |-> 0, content |-> NoRaw]
SetupError == [kind |-> "setup", status |-> 0, content |-> NoRaw]
Completion(raw) == [kind |-> "ok", status |-> 200, content |-> raw]

NetFailures == {HttpError(401), HttpError(429), HttpError(503), NoAnswer,
                SetupError, Completion(NoRaw)}

callGroqLLM(key, net) ==
    IF ~key
    THEN [error |-> TRUE, status |-> 500, message |-> "Groq API key is missing.",
          content |-> NoRaw]
    ELSE CASE net.kind = "ok" ->
                IF net.content = NoRaw
                THEN [error |-> TRUE, status |-> 500,
                      message |-> "Invalid response structure from AI.",
                      content |-> NoRaw]
                ELSE [error |-> FALSE, status |-> 0, message |-> "",
                      content |-> net.content]
           [] net.kind = "response" ->
                [error |-> TRUE, status |-> net.status,
                 message |-> "Failed to get a response from the AI.",
                 content |-> NoRaw]
           [] net.kind = "request" ->
                [error |-> TRUE, status |-> 500,
                 message |-> "No response received from AI service.",
                 content |-> NoRaw]
           [] OTHER ->
                [error |-> TRUE, status |-> 500, message |-> "error.message",
                 content |-> NoRaw]

----------------------------------------------------------------------------
(* The tools and the utterance heuristics *)

ToolNames == {"get_sap_definition", "show_leave_application_form",
              "query_inventory", "get_sales_orders", "get_purchase_orders"}

needsParamsTools == {"query_inventory", "get_sales_orders",
                     "get_purchase_orders", "get_sap_definition"}

\* number of letters of a purely alphabetic word, 0 for any other word
Letters(w) ==
    CASE w \in {"of", "to"} -> 2
      [] w \in {"for", "how"} -> 3
      [] w \in {"have"} -> 4
      [] w \in {"stock", "pumps", "steps"} -> 5
      [] w \in {"process"} -> 7
      [] w \in {"customer"} -> 8
      [] OTHER -> 0

\* /\b(of|have|stock)\b.*\b([a-zA-Z]{3,})\b/i
InventoryPattern(u) ==
    \E i \in 1..Len(u) : \E j \in (i + 1)..Len(u) :
        /\ Lower(u[i]) \in {"of", "have", "stock"}
        /\ Letters(u[j]) >= 3

\* /\b(for|<word>)\b.*\b([A-Z][a-zA-Z\s]+)\b/i
OrderPattern(u, word) ==
    \E i \in 1..Len(u) : \E j \in (i + 1)..Len(u) :
        /\ Lower(u[i]) \in {"for", word}
        /\ \/ Letters(u[j]) >= 2
           \/ Letters(u[j]) = 1 /\ j < Len(u)

\* /\b(process|how to|steps)\b/i, with procedure and way to in part_009
askedForProcess(b, u) ==
    \/ \E i \in 1..Len(u) : Lower(u[i]) \in {"process", "steps"}
    \/ \E i \in 1..(Len(u) - 1) : Lower(u[i]) = "how" /\ Lower(u[i + 1]) = "to"
    \/ /\ b = "part_009"
       /\ \/ \E i \in 1..Len(u) : Lower(u[i]) = "procedure"
          \/ \E i \in 1..(Len(u) - 1) : Lower(u[i]) = "way" /\ Lower(u[i + 1]) = "to"

\* variant: the extraction runs for every tool of needsParamsTools
runSecondaryExtractionAlways(b, tool, params, u) ==
    b = "index" /\ tool \in needsParamsTools

\* STEP 2.1: whether the secondary extraction runs (index.js only)
runSecondaryExtraction(b, tool, params, u) ==
    /\ b = "index"
    /\ tool \in needsParamsTools
    /\ \/ ObjectKeys(params) = {} /\ tool # "show_leave_application_form"
       \/ tool = "query_inventory" /\ ~Truthy(params["material_id"]) /\ InventoryPattern(u)
       \/ tool = "get_sales_orders" /\ ~Truthy(params["customer"]) /\ OrderPattern(u, "customer")
       \/ tool = "get_purchase_orders" /\ ~Truthy(params["vendor"]) /\ OrderPattern(u, "vendor")

\* the parameters each tool of the list declares
ToolParameters(tool) ==
    CASE tool = "get_sap_definition" -> {"term"}
      [] tool = "query_inventory" -> {"material_id", "comparison", "quantity"}
      [] tool = "get_sales_orders" -> {"customer", "status"}
      [] tool = "get_purchase_orders" -> {"vendor", "status"}
      [] OTHER -> {}

\* the keys the extraction prompt of a tool asks for; none without a prompt
ExtractionPromptKeys(tool) ==
    CASE tool = "query_inventory" -> {"material_id", "comparison", "quantity"}
      [] tool = "get_sales_orders" -> {"customer", "status"}
      [] tool = "get_purchase_orders" -> {"vendor", "status"}
      [] OTHER -> {}

\* extractParameters has a prompt for these tools; for any other it returns {}
ExtractionPromptTools == {"query_inventory", "get_sales_orders", "get_purchase_orders"}

\* JSON.parse(extractionResult): the object's keys, none for any other value
ParsedObject(parsed) ==
    IF parsed.ok /\ parsed.kind = "object" THEN parsed.body.parameters ELSE NoParams

\* extractParameters after its model call came back
extractParametersResult(res) ==
    IF ~res.error THEN ParsedObject(JsonParse(res.content)) ELSE NoParams

\* variant: the spread in the other order, { ...extractedParams, ...parameters }
MergeParamsOriginalFirst(orig, ext) ==
    [k \in ParamKeys |-> IF orig[k] # Undef THEN orig[k] ELSE ext[k]]

\* variant: a null of the extractor does not replace the classifier's value
MergeParamsSkippingNull(orig, ext) ==
    [k \in ParamKeys |-> IF ext[k] \notin {Undef, Null} THEN ext[k] ELSE orig[k]]

\* parameters = { ...parameters, ...extractedParams }
MergeParams(orig, ext) ==
    [k \in ParamKeys |-> IF ext[k] # Undef THEN ext[k] ELSE orig[k]]

----------------------------------------------------------------------------
(* STEP 2.2: the switch over decision.tool_name.  Each case yields         *)
(* [threw, next, case, payload, searches, prompt]: whether it threw, the   *)
(* model call it then waits for ("done" for none), the payload it built,   *)
(* the index searches it made and the prompt of the call it waits for.     *)

GoodKbCutoff == 45
TopResultsCutoff == 60
TopResultsLimit == 3

NoPayload == [type |-> "", content |-> NoText, tableColumns |-> <<>>, tableData |-> <<>>]
TextPayload(text) ==
    [type |-> "text", content |-> text, tableColumns |-> <<>>, tableData |-> <<>>]
TablePayload(columns, rows) ==
    [type |-> "table", content |-> NoText, tableColumns |-> columns, tableData |-> rows]
FormPayload ==
    [type |-> "leave_application_form", content |-> NoText,
     tableColumns |-> <<>>, tableData |-> <<>>]

NoPrompt == [kind |-> "", grounded |-> FALSE, process |-> FALSE,
             term |-> Undef, context |-> <<>>]

Thrown(case, searched) ==
    [threw |-> TRUE, next |-> "done", case |-> case, payload |-> NoPayload,
     searches |-> searched, prompt |-> NoPrompt]
Finished(case, payload, searched) ==
    [threw |-> FALSE, next |-> "done", case |-> case, payload |-> payload,
     searches |-> searched, prompt |-> NoPrompt]
Awaiting(case, call, searched, p) ==
    [threw |-> FALSE, next |-> call, case |-> case, payload |-> NoPayload,
     searches |-> searched, prompt |-> p]

IsAlnum(a) == a \notin {" ", "-", ",", "&", "/", "?", "'", "."}
Upper(a) ==
    CASE a = "fb60" -> "FB60" [] a = "purchase" -> "PURCHASE" [] a = "order" -> "ORDER"
      [] a = "zzqq" -> "ZZQQ" [] a = "invoice" -> "INVOICE" [] a = "vendor" -> "VENDOR"
      [] OTHER -> a
\* searchTerm.replace(/[^a-zA-Z0-9]/g, '').toUpperCase()
Normalize(s) ==
    LET kept == SelectSeq(s, IsAlnum)
    IN [i \in 1..Len(kept) |-> Upper(kept[i])]

Min(a, b) == IF a <= b THEN a ELSE b

\* index.js: the best match grounds the prompt when its score is under the cutoff
IndexPrompt(kbSearchResults, searchTerm, process) ==
    IF Len(kbSearchResults) > 0 /\ kbSearchResults[1].score < GoodKbCutoff
    THEN [kind |-> "explain", grounded |-> TRUE, process |-> process,
          term |-> searchTerm, context |-> <<kbSearchResults[1].item>>]
    ELSE [kind |-> "explain", grounded |-> FALSE, process |-> process,
          term |-> searchTerm, context |-> <<>>]

\* part_009: kbSearchResults.slice(0, 3).filter(result => result.score < 0.6)
TopResults(kbSearchResults) ==
    SelectSeq(SubSeq(kbSearchResults, 1, Min(TopResultsLimit, Len(kbSearchResults))),
              LAMBDA r : r.score < TopResultsCutoff)

Part009Prompt(topResults, searchTerm, process) ==
    [kind |-> "explain", grounded |-> Len(topResults) > 0, process |-> process,
     term |-> searchTerm, context |-> Items(topResults)]

\* the clarification of get_sap_definition called without a term
MissingTermText(b) ==
    IF b = "index"
    THEN FixedText("Please specify the SAP term or process you'd like explained.")
    ELSE FixedText("Please tell me which SAP term or process you want explained.")

DefinitionOf(b, searchTerm, u) ==
    IF ~Truthy(searchTerm)
    THEN Finished("get_sap_definition", TextPayload(MissingTermText(b)), <<>>)
    ELSE IF b = "index"
    THEN IF ~IsString(searchTerm) THEN Thrown("get_sap_definition", <<>>)
         ELSE Awaiting("get_sap_definition", "explain", <<"knowledge">>,
                IndexPrompt(knowledgeFuseSearch(Str(Normalize(searchTerm.s))),
                            searchTerm, askedForProcess(b, u)))
    ELSE Awaiting("get_sap_definition", "explain", <<"knowledge">>,
            Part009Prompt(TopResults(knowledgeFuseSearch(searchTerm)),
                          searchTerm, askedForProcess(b, u)))

ExecDefinition(b, params, u) == DefinitionOf(b, params["term"], u)

\* the searches of a multi-item query: every item searched on its own over
\* docs, the results merged by idKey in first-seen order
RECURSIVE SearchEach(_, _, _, _, _)
SearchEach(items, docs, keys, idKey, acc) ==
    IF items = <<>> THEN acc
    ELSE SearchEach(Tail(items), docs, keys, idKey,
            DedupInto(acc, Items(FuseSearch(docs, keys, FuseThreshold, Str(Head(items)))),
                      idKey))

Includes(s, subs) == \E i \in 1..Len(s) : s[i] \in subs

\* the numeric post-filter of query_inventory: [threw, rows]
QuantityFilter(inventory, comparison, quantity) ==
    IF ~(Truthy(comparison) /\ Truthy(quantity))
    THEN [threw |-> FALSE, rows |-> inventory]
    ELSE IF ~IsString(comparison) THEN [threw |-> TRUE, rows |-> <<>>]
    ELSE LET qty == ParseInt(quantity)
             cmp == LowerSeq(comparison.s)
             keep(item) ==
                LET itemStock == ParseInt(item.StockLevel)
                IN IF itemStock.nan THEN FALSE
                   ELSE IF Includes(cmp, {"less", "<"}) THEN itemStock.v < qty.v
                   ELSE IF Includes(cmp, {"more", "greater", ">"}) THEN itemStock.v > qty.v
                   ELSE FALSE
         IN [threw |-> FALSE,
             rows |-> IF qty.nan THEN inventory ELSE SelectSeq(inventory, keep)]

InventoryColumns == <<"Material", "Description", "Stock Level", "Plant">>

\* the searches of the items of a multi-item material query: [threw, rows, searches]
MultiItemRows(split, docs, keys, idKey, indexName) ==
    IF split.threw THEN [threw |-> TRUE, rows |-> <<>>, searches |-> <<>>]
    ELSE [threw |-> FALSE,
          rows |-> SearchEach(split.items, docs, keys, idKey, <<>>),
          searches |-> [i \in 1..Len(split.items) |-> indexName]]

\* the material part of query_inventory: [threw, rows, searches]
InventoryMatches(b, materialSearchTerm) ==
    IF ~Truthy(materialSearchTerm)
    THEN [threw |-> FALSE, rows |-> stockList, searches |-> <<>>]
    ELSE IF b = "index"
    THEN [threw |-> FALSE, rows |-> Items(stockFuseSearch(materialSearchTerm)),
          searches |-> <<"stock">>]
    ELSE MultiItemRows(extractMultipleItems(materialSearchTerm), stockList,
                       {"Material", "Description"}, "Material", "stock")

\* the table of query_inventory, or the throw of one of its two parts
InventoryResult(matched, filtered) ==
    IF matched.threw \/ filtered.threw THEN Thrown("query_inventory", matched.searches)
    ELSE Finished("query_inventory", TablePayload(InventoryColumns, filtered.rows),
                  matched.searches)

InventoryFiltered(matched, comparison, quantity) ==
    InventoryResult(matched,
        IF matched.threw THEN [threw |-> TRUE, rows |-> <<>>]
        ELSE QuantityFilter(matched.rows, comparison, quantity))

ExecInventory(b, params) ==
    InventoryFiltered(InventoryMatches(b, params["material_id"]),
                      params["comparison"], params["quantity"])

\* get_sales_orders and get_purchase_orders are the same code over their
\* own list, index and name parameter
OrderData(tool) == IF tool = "get_sales_orders" THEN salesOrderData ELSE purchaseOrderData
NameParam(tool) == IF tool = "get_sales_orders" THEN "customer" ELSE "vendor"
OrderIndexName(tool) == IF tool = "get_sales_orders" THEN "salesOrder" ELSE "purchaseOrder"
OrderColumns(tool) ==
    IF tool = "get_sales_orders"
    THEN <<"ID", "Customer", "Material", "Quantity", "Status", "Value">>
    ELSE <<"ID", "Vendor", "Material", "Quantity", "Status", "Value">>

NameFilter(b, tool, name) ==
    IF tool = "get_sales_orders"
    THEN Items(salesOrderFuseSearch(b, name))
    ELSE Items(purchaseOrderFuseSearch(b, name))

\* the name filter: [threw, rows, searches]
NameFiltered(b, tool, name) ==
    IF Truthy(name)
    THEN [threw |-> FALSE, rows |-> NameFilter(b, tool, name),
          searches |-> <<OrderIndexName(tool)>>]
    ELSE [threw |-> FALSE, rows |-> OrderData(tool), searches |-> <<>>]

\* the material filter of the multi-item build, over the rows kept so far
MaterialFilter(b, prev, material) ==
    IF b = "index" \/ ~Truthy(material) THEN prev
    ELSE [threw |-> extractMultipleItems(material).threw,
          rows |-> MultiItemRows(extractMultipleItems(material), prev.rows,
                                 {"material"}, "id", "material").rows,
          searches |-> prev.searches
                \o MultiItemRows(extractMultipleItems(material), prev.rows,
                                 {"material"}, "id", "material").searches]

\* variant: the status index of the second request returns its matches in
\* the reverse order
StatusFilterByArrival(prev, status) ==
    IF ~prev.threw /\ Truthy(status)
    THEN LET hits == Items(FuseSearch(prev.rows, {"status"}, FuseThreshold, status))
         IN [threw |-> FALSE,
             rows |-> IF current = 2
                      THEN [i \in 1..Len(hits) |-> hits[Len(hits) + 1 - i]]
                      ELSE hits,
             searches |-> Append(prev.searches, "status")]
    ELSE prev

\* the ad hoc status index over the rows kept so far
StatusFilter(prev, status) ==
    IF ~prev.threw /\ Truthy(status)
    THEN [threw |-> FALSE,
          rows |-> Items(FuseSearch(prev.rows, {"status"}, FuseThreshold, status)),
          searches |-> Append(prev.searches, "status")]
    ELSE prev

MapOrder(tool, order) ==
    IF tool = "get_sales_orders"
    THEN [ID |-> order.id, Customer |-> order.customer, Material |-> order.material,
          Quantity |-> order.quantity, Status |-> order.status, Value |-> order.value]
    ELSE [ID |-> order.id, Vendor |-> order.vendor, Material |-> order.material,
          Quantity |-> order.quantity, Status |-> order.status, Value |-> order.value]

OrdersResult(tool, final) ==
    IF final.threw THEN Thrown(tool, final.searches)
    ELSE Finished(tool,
            TablePayload(OrderColumns(tool),
                         [i \in 1..Len(final.rows) |-> MapOrder(tool, final.rows[i])]),
            final.searches)

\* variant: the status index is built over the whole list, not the rows kept so far
ExecOrdersStatusOverAll(b, tool, params) ==
    OrdersResult(tool,
        StatusFilter(IF Truthy(params["status"])
                     THEN NameFiltered(b, tool, Undef)
                     ELSE MaterialFilter(b, NameFiltered(b, tool, params[NameParam(tool)]),
                                         params["material"]),
                     params["status"]))

ExecOrders(b, tool, params) ==
    OrdersResult(tool,
        StatusFilter(MaterialFilter(b, NameFiltered(b, tool, params[NameParam(tool)]),
                                    params["material"]),
                     params["status"]))

ExecuteTool(b, tool, params, u) ==
    CASE tool = "get_sap_definition" -> ExecDefinition(b, params, u)
      [] tool = "show_leave_application_form" ->
            Finished(tool, FormPayload, <<>>)
      [] tool = "query_inventory" -> ExecInventory(b, params)
      [] tool \in {"get_sales_orders", "get_purchase_orders"} -> ExecOrders(b, tool, params)
      [] OTHER ->
            Awaiting("default", "clarify", <<>>,
                [kind |-> "clarify", grounded |-> FALSE, process |-> FALSE,
                 term |-> Undef, context |-> <<>>])

----------------------------------------------------------------------------
(* Responses *)

NoResponse == [sent |-> FALSE, status |-> 0, error |-> "", body |-> NoPayload]
Json(payload) == [sent |-> TRUE, status |-> 200, error |-> "", body |-> payload]
ErrorResponse(status, message) ==
    [sent |-> TRUE, status |-> status, error |-> message, body |-> NoPayload]

\* res.status(decisionResult.status || 500).json({ error: decisionResult.message })
UpstreamError(res) ==
    ErrorResponse(IF res.status # 0 THEN res.status ELSE 500, res.message)

\* the catch block of the handler
InternalError ==
    ErrorResponse(500, "An internal server error occurred processing your request.")

\* variant: the explanation call's content is passed on without the error test
ExplanationPayloadUnguarded(b, res, searchTerm) == TextPayload(ReplyText(res.content))

\* the text of the final explanation, or the apology when its call failed
ExplanationPayload(b, res, searchTerm) ==
    IF ~res.error THEN TextPayload(ReplyText(res.content))
    ELSE IF b = "index"
    THEN TextPayload(TemplateText("Sorry, issue explaining '${searchTerm}'.", searchTerm))
    ELSE TextPayload(TemplateText(
            "Sorry, I encountered an issue while trying to explain '${searchTerm}'. Please try again.",
            searchTerm))

\* variant: the default case passes the call's content on without the error test
FallbackPayloadUnguarded(res) == TextPayload(ReplyText(res.content))

\* the text of the default case
FallbackPayload(res) ==
    IF ~res.error THEN TextPayload(ReplyText(res.content))
    ELSE TextPayload(FixedText("Sorry, I couldn't process that request. Could you please rephrase?"))

\* variant: decision.content is sent as it is
TextDecisionPayloadAsIs(d) ==
    TextPayload([k |-> "decision", m |-> d.content, raw |-> NoRaw, arg |-> Undef])

\* the text branch: decision.content || "Sorry, I couldn't generate a response."
TextDecisionPayload(d) ==
    IF d.content # "" THEN TextPayload([k |-> "decision", m |-> d.content,
                                        raw |-> NoRaw, arg |-> Undef])
    ELSE TextPayload(FixedText("Sorry, I couldn't generate a response."))

----------------------------------------------------------------------------
(* STEP 1: from the classification call's result to a response or a tool   *)
(* call: [kind, response, decision], kind "respond" or "tool"              *)

Respond(r, d) == [kind |-> "respond", response |-> r, decision |-> d]

\* variant: type 'tool_call' alone makes a tool call
DecisionOfValueByType(parsed) ==
    IF parsed.kind = "null"
    THEN Respond(InternalError, NoBody)
    ELSE IF parsed.body.type = "tool_call"
    THEN [kind |-> "tool", response |-> NoResponse, decision |-> parsed.body]
    ELSE IF parsed.body.type = "text"
    THEN Respond(Json(TextDecisionPayload(parsed.body)), parsed.body)
    ELSE Respond(ErrorResponse(500, "Received an unexpected response format from the AI."),
                 parsed.body)

\* the reply parsed as JSON: the value decides
DecisionOfValue(parsed) ==
    IF parsed.kind = "null"
    THEN Respond(InternalError, NoBody)      \* decision.type of null throws
    ELSE IF parsed.body.type = "tool_call" /\ parsed.body.tool_name # ""
    THEN [kind |-> "tool", response |-> NoResponse, decision |-> parsed.body]
    ELSE IF parsed.body.type = "text"
    THEN Respond(Json(TextDecisionPayload(parsed.body)), parsed.body)
    ELSE Respond(ErrorResponse(500, "Received an unexpected response format from the AI."),
                 parsed.body)

\* the reply did not parse: plain text is passed through, a fragment is an error
UnparsedReply(raw) ==
    IF ~StartsWithBrace(raw)
    THEN Respond(Json(TextPayload(ReplyText(raw))), NoBody)
    ELSE Respond(ErrorResponse(500, "Failed to interpret AI decision."), NoBody)

\* variant: the result of the classification call is parsed without the error test
DecisionStepUnchecked(res) ==
    IF JsonParse(res.content).ok THEN DecisionOfValue(JsonParse(res.content))
    ELSE UnparsedReply(res.content)

DecisionStep(res) ==
    IF res.error THEN Respond(UpstreamError(res), NoBody)
    ELSE IF JsonParse(res.content).ok THEN DecisionOfValue(JsonParse(res.content))
    ELSE UnparsedReply(res.content)

\* let parameters = decision.parameters || {}
InitialParams(d) == IF d.hasParameters THEN d.parameters ELSE NoParams

----------------------------------------------------------------------------
(* Inputs *)

Vocabulary == {"stock", "for", "pumps", "steps"}

Utterances == UNION {[1..n -> Vocabulary] : n \in 1..MaxWords}

OlderEntry == <<"stock", "pumps">>

Histories ==
    {[isArray |-> FALSE, entries |-> <<>>], [isArray |-> TRUE, entries |-> <<>>]}
    \cup {[isArray |-> TRUE, entries |-> <<u>>] : u \in Utterances}
    \cup {[isArray |-> TRUE, entries |-> <<OlderEntry, u>>] : u \in Utterances}

TermValues == {Undef, Null, Str(<<>>), Str(<<"FB60">>), Str(<<"purchase", " ", "order">>),
               Str(<<"vendor">>), Str(<<"zzqq">>), Num(60)}
MaterialValues == {Undef, Str(<<"pumps">>), Str(<<"pumps", " ", "and", " ", "bearings">>),
                   Str(<<"zzqq">>), Num(1001)}
ComparisonValues == {Undef, Str(<<"less", " ", "than">>), Str(<<"greater", " ", "than">>),
                     Str(<<"equals">>), Num(1)}
QuantityValues == {Undef, Num(0), Num(10), Str(<<"10">>), Str(<<"abc">>)}
NameValues(tool) ==
    {Undef, Null, Num(7), Str(<<"pump">>),
     Str(IF tool = "get_sales_orders" THEN <<"TechCorp">> ELSE <<"SteelCo">>)}
StatusValues == {Undef, Str(<<"Open">>), Str(<<"Delivered">>), Num(1)}
OrderMaterialValues == {Undef, Str(<<"pump">>), Str(<<"pump", ",", "valve">>), Num(5)}

ClassifierParams(tool) ==
    CASE tool = "get_sap_definition" ->
            {Params([term |-> v]) : v \in TermValues}
                \cup {Params([material_id |-> Str(<<"pumps">>)])}
      [] tool = "query_inventory" ->
            {Params([material_id |-> m, comparison |-> c, quantity |-> q]) :
                m \in MaterialValues, c \in ComparisonValues, q \in QuantityValues}
      [] tool \in {"get_sales_orders", "get_purchase_orders"} ->
            {Params((NameParam(tool) :> n) @@ [status |-> st, material |-> m]) :
                n \in NameValues(tool), st \in StatusValues, m \in OrderMaterialValues}
      [] OTHER -> {NoParams, Params([term |-> Str(<<"FB60">>)])}

ToolCall(tool, hasParameters, params) ==
    [type |-> "tool_call", tool_name |-> tool, hasParameters |-> hasParameters,
     parameters |-> params, content |-> ""]

DecisionBodies ==
    {[type |-> ty, tool_name |-> "", hasParameters |-> FALSE, parameters |-> NoParams,
      content |-> c] : ty \in {"text", "other", ""}, c \in {"", "Hello!"}}
    \cup {ToolCall(tool, TRUE, p) :
            tool \in ToolNames \cup {"unknown_tool"}, p \in {NoParams}}
    \cup UNION {{ToolCall(tool, TRUE, p) : p \in ClassifierParams(tool)} :
            tool \in ToolNames \cup {"unknown_tool", ""}}
    \cup {ToolCall(tool, FALSE, NoParams) : tool \in ToolNames \cup {"unknown_tool"}}

MalformedReplies ==
    {Raw(ws, open, FALSE, NoBody, "malformed") : ws \in 0..1, open \in {"{", "[", "x"}}

ClassifierReplies ==
    {Raw(0, "{", TRUE, b, "json") : b \in DecisionBodies}
    \cup MalformedReplies
    \cup {Raw(0, open, TRUE, NoBody, "json") : open \in {"[", "q", "n"}}

ExtractionParams(tool) ==
    CASE tool = "query_inventory" ->
            {Params([material_id |-> m, comparison |-> c, quantity |-> q]) :
                m \in {Undef, Null, Str(<<"pumps">>)},
                c \in {Undef, Null, Str(<<"less", " ", "than">>)},
                q \in {Undef, Null, Num(10)}}
      [] OTHER ->
            {Params((NameParam(tool) :> n) @@ [status |-> st]) :
                n \in {Undef, Null, Str(<<"pump">>)},
                st \in {Undef, Null, Str(<<"Open">>)}}

\* a reply that is the JSON object of the parameters alone
ParamsObject(p) ==
    [type |-> "", tool_name |-> "", hasParameters |-> TRUE, parameters |-> p,
     content |-> ""]

ExtractionReplies(tool) ==
    {Raw(0, "{", TRUE, ParamsObject(p), "json") : p \in ExtractionParams(tool)}
    \cup MalformedReplies
    \cup {Raw(0, open, TRUE, NoBody, "json") : open \in {"[", "n"}}

TextReplies == {Raw(0, "x", FALSE, NoBody, "explanation"),
                Raw(0, "x", FALSE, NoBody, "could not find")}

----------------------------------------------------------------------------
(* The handler of POST /api/chat, one action per stretch between awaits *)

\* the locals of an invocation that has history h and has not started
NewFrame(h) ==
    [messageHistory |-> h, pc |-> "received", originalUserQuery |-> <<>>,
     decisionResult |-> NoResult, decision |-> NoBody, parameters |-> NoParams,
     extractionResult |-> NoResult, extracted |-> NoParams, ranExtraction |-> FALSE,
     prompt |-> NoPrompt, finalResult |-> NoResult, llmCalls |-> <<>>,
     searches |-> <<>>, toolRun |-> "none", response |-> NoResponse]

\* no other request
NoFrame == [NewFrame([isArray |-> FALSE, entries |-> <<>>]) EXCEPT !.pc = "absent"]

\* new Fuse(docs, { keys, threshold })
Index(docs, keys, threshold) == [docs |-> docs, keys |-> keys, threshold |-> threshold]

\* what the module holds once loaded
Loaded(b) ==
    [stockList |-> stockList,
     stockFuse |-> Index(stockList, {"Material", "Description"}, FuseThreshold),
     salesOrderData |-> salesOrderData,
     salesOrderFuse |-> Index(salesOrderData, salesOrderFuseKeys(b), FuseThreshold),
     purchaseOrderData |-> purchaseOrderData,
     purchaseOrderFuse |-> Index(purchaseOrderData, purchaseOrderFuseKeys(b), FuseThreshold),
     knowledgeData |-> knowledgeData,
     knowledgeFuse |-> Index(knowledgeData, {"term", "definition"}, KnowledgeThreshold),
     tools |-> ToolNames]

\* the chat requests the page may send
MaxRequests == 2

\* a chat request: "unsent", "inflight", "aborted" (its signal was aborted,
\* the rejection not yet delivered) or "settled"; `session` is the
\* currentSessionId of its handleSendMessage invocation
NoRequest == [status |-> "unsent", session |-> 0]

\* localStorage.getItem('chatSessions'): null, or the saved list
NoEntry == [present |-> FALSE, value |-> <<>>]
Entry(list) == [present |-> TRUE, value |-> list]

\* the page after its first render, no effect run yet: useState([]),
\* useState(null), useState(false), useRef(false), useRef(null)
FirstRender(entry) ==
    /\ sessions = <<>>
    /\ activeSessionId = 0
    /\ isBotTyping = FALSE
    /\ pending = <<>>
    /\ initialized = FALSE
    /\ chatSessions = entry
    /\ abortControllerRef = 0
    /\ requests = [r \in 1..MaxRequests |-> NoRequest]
    /\ clock = 0

\* the leave store as readJsonSafely reads it
LeaveStore(isArray, entries) == [isArray |-> isArray, entries |-> entries]

Init ==
    /\ build \in {"index", "part_009"}
    /\ hasKey \in BOOLEAN
    /\ messageHistory \in Histories
    /\ pc = "received"
    /\ originalUserQuery = <<>>
    /\ decisionResult = NoResult
    /\ decision = NoBody
    /\ parameters = NoParams
    /\ extractionResult = NoResult
    /\ extracted = NoParams
    /\ ranExtraction = FALSE
    /\ prompt = NoPrompt
    /\ finalResult = NoResult
    /\ llmCalls = <<>>
    /\ searches = <<>>
    /\ toolRun = "none"
    /\ response = NoResponse
    /\ current = 1
    /\ suspended = NoFrame
    /\ loaded = Loaded(build)
    /\ leaveApplications = LeaveStore(TRUE, <<>>)
    /\ leaveResponse = NoResponse
    /\ FirstRender(NoEntry)

\* variant: only Array.isArray is tested, an empty history goes on
ReceiveArrayOnly ==
    /\ pc = "received"
    /\ IF ~messageHistory.isArray
       THEN /\ response' = ErrorResponse(400, "Invalid messageHistory provided.")
            /\ pc' = "done"
            /\ UNCHANGED <<originalUserQuery, llmCalls>>
       ELSE /\ originalUserQuery' = IF Len(messageHistory.entries) = 0 THEN <<>>
                                     ELSE messageHistory.entries[Len(messageHistory.entries)]
            /\ llmCalls' = Append(llmCalls, "classify")
            /\ pc' = "classify"
            /\ UNCHANGED response
    /\ UNCHANGED <<build, hasKey, messageHistory, decisionResult, decision, parameters,
                   extractionResult, extracted, ranExtraction, prompt, finalResult,
                   searches, toolRun>>
    /\ UNCHANGED server
    /\ UNCHANGED client

\* variant: the utterance is the text of the first history entry
ReceiveFirstEntry ==
    /\ pc = "received"
    /\ IF ~messageHistory.isArray \/ Len(messageHistory.entries) = 0
       THEN /\ response' = ErrorResponse(400, "Invalid messageHistory provided.")
            /\ pc' = "done"
            /\ UNCHANGED <<originalUserQuery, llmCalls>>
       ELSE /\ originalUserQuery' = messageHistory.entries[1]
            /\ llmCalls' = Append(llmCalls, "classify")
            /\ pc' = "classify"
            /\ UNCHANGED response
    /\ UNCHANGED <<build, hasKey, messageHistory, decisionResult, decision, parameters,
                   extractionResult, extracted, ranExtraction, prompt, finalResult,
                   searches, toolRun>>
    /\ UNCHANGED server
    /\ UNCHANGED client

\* validation of the body, then the classification call is issued
Receive ==
    /\ pc = "received"
    /\ IF ~messageHistory.isArray \/ Len(messageHistory.entries) = 0
       THEN /\ response' = ErrorResponse(400, "Invalid messageHistory provided.")
            /\ pc' = "done"
            /\ UNCHANGED <<originalUserQuery, llmCalls>>
       ELSE /\ originalUserQuery' = messageHistory.entries[Len(messageHistory.entries)]
            /\ llmCalls' = Append(llmCalls, "classify")
            /\ pc' = "classify"
            /\ UNCHANGED response
    /\ UNCHANGED <<build, hasKey, messageHistory, decisionResult, decision, parameters,
                   extractionResult, extracted, ranExtraction, prompt, finalResult,
                   searches, toolRun>>
    /\ UNCHANGED server
    /\ UNCHANGED client

\* the outcome r of the switch: a response, or the next model call
Continue(r) ==
    /\ toolRun' = r.case
    /\ searches' = searches \o r.searches
    /\ prompt' = r.prompt
    /\ IF r.threw
       THEN response' = InternalError /\ pc' = "done" /\ UNCHANGED llmCalls
       ELSE IF r.next = "done"
       THEN response' = Json(r.payload) /\ pc' = "done" /\ UNCHANGED llmCalls
       ELSE pc' = r.next /\ llmCalls' = Append(llmCalls, r.next) /\ UNCHANGED response

\* STEP 2.2 with the final parameters, up to the response or the next await
RunTool(tool, params) ==
    /\ parameters' = params
    /\ Continue(ExecuteTool(build, tool, params, originalUserQuery))

\* STEP 2 for a tool call d whose first parameters are `first`
OnToolCall(d, first) ==
    IF runSecondaryExtraction(build, d.tool_name, first, originalUserQuery)
    THEN /\ ranExtraction' = TRUE
         /\ IF d.tool_name \in ExtractionPromptTools
            THEN /\ parameters' = first
                 /\ llmCalls' = Append(llmCalls, "extract")
                 /\ pc' = "extract"
                 /\ UNCHANGED <<extracted, prompt, searches, toolRun, response>>
            ELSE /\ extracted' = NoParams
                 /\ RunTool(d.tool_name, MergeParams(first, NoParams))
    ELSE /\ UNCHANGED <<extracted, ranExtraction>>
         /\ RunTool(d.tool_name, first)

OnDecision(step) ==
    /\ decision' = step.decision
    /\ IF step.kind = "respond"
       THEN /\ response' = step.response
            /\ pc' = "done"
            /\ UNCHANGED <<parameters, extracted, ranExtraction, prompt,
                           llmCalls, searches, toolRun>>
       ELSE OnToolCall(step.decision, InitialParams(step.decision))

OnDecisionResult(res) ==
    /\ decisionResult' = res
    /\ OnDecision(DecisionStep(res))

\* what axios.post can do when the model's replies are `replies`
Outcomes(replies) == NetFailures \cup {Completion(r) : r \in replies}

\* the classification call returns, axios.post doing one of `nets`: parse,
\* decide, maybe start the extraction
ClassifierReturns(nets) ==
    /\ \E net \in nets : OnDecisionResult(callGroqLLM(hasKey, net))
    /\ UNCHANGED <<build, hasKey, messageHistory, originalUserQuery, extractionResult,
                   finalResult>>
    /\ UNCHANGED server
    /\ UNCHANGED client

ClassifierReplied ==
    /\ pc = "classify"
    /\ ClassifierReturns(Outcomes(ClassifierReplies))

OnExtracted(extractedParams) ==
    /\ extracted' = extractedParams
    /\ RunTool(decision.tool_name, MergeParams(parameters, extractedParams))

\* variant: an extraction call that failed is made once more
OnExtractionResultRetrying(res) ==
    IF res.error /\ extractionResult = NoResult
    THEN /\ extractionResult' = res
         /\ llmCalls' = Append(llmCalls, "extract")
         /\ UNCHANGED <<extracted, parameters, pc, prompt, searches, toolRun, response>>
    ELSE /\ extractionResult' = res
         /\ OnExtracted(extractParametersResult(res))

OnExtractionResult(res) ==
    /\ extractionResult' = res
    /\ OnExtracted(extractParametersResult(res))

\* the extraction call returns: merge, then run the tool
ExtractionReturns(nets) ==
    /\ \E net \in nets : OnExtractionResult(callGroqLLM(hasKey, net))
    /\ UNCHANGED <<build, hasKey, messageHistory, originalUserQuery, decisionResult,
                   decision, ranExtraction, finalResult>>
    /\ UNCHANGED server
    /\ UNCHANGED client

ExtractionReplied ==
    /\ pc = "extract"
    /\ ExtractionReturns(Outcomes(ExtractionReplies(decision.tool_name)))

OnExplanation(res) ==
    /\ finalResult' = res
    /\ response' = Json(ExplanationPayload(build, res, prompt.term))

\* variant: the explanation is kept in the knowledge base for later requests
ExplanationReturnsLearning(nets) ==
    /\ \E net \in nets : OnExplanation(callGroqLLM(hasKey, net))
    /\ pc' = "done"
    /\ loaded' = [loaded EXCEPT !.knowledgeData =
                        Append(@, [term |-> <<"zzqq">>, definition |-> <<"explanation">>])]
    /\ UNCHANGED <<build, hasKey, messageHistory, originalUserQuery, decisionResult,
                   decision, parameters, extractionResult, extracted, ranExtraction,
                   prompt, llmCalls, searches, toolRun>>
    /\ UNCHANGED <<current, suspended, leaveApplications, leaveResponse>>
    /\ UNCHANGED client

\* the final explanation call of get_sap_definition returns
ExplanationReturns(nets) ==
    /\ \E net \in nets : OnExplanation(callGroqLLM(hasKey, net))
    /\ pc' = "done"
    /\ UNCHANGED <<build, hasKey, messageHistory, originalUserQuery, decisionResult,
                   decision, parameters, extractionResult, extracted, ranExtraction,
                   prompt, llmCalls, searches, toolRun>>
    /\ UNCHANGED server
    /\ UNCHANGED client

ExplanationReplied ==
    /\ pc = "explain"
    /\ ExplanationReturns(Outcomes(TextReplies))

OnClarification(res) ==
    /\ finalResult' = res
    /\ response' = Json(FallbackPayload(res))

\* the clarification call of the default case returns
ClarificationReturns(nets) ==
    /\ \E net \in nets : OnClarification(callGroqLLM(hasKey, net))
    /\ pc' = "done"
    /\ UNCHANGED <<build, hasKey, messageHistory, originalUserQuery, decisionResult,
                   decision, parameters, extractionResult, extracted, ranExtraction,
                   prompt, llmCalls, searches, toolRun>>
    /\ UNCHANGED server
    /\ UNCHANGED client

ClarificationReplied ==
    /\ pc = "clarify"
    /\ ClarificationReturns(Outcomes(TextReplies))

Next ==
    \/ Receive
    \/ ClassifierReplied
    \/ ExtractionReplied
    \/ ExplanationReplied
    \/ ClarificationReplied

Spec == Init /\ [][Next]_vars

----------------------------------------------------------------------------
(* The server: two chat requests in flight, and POST /api/submit-leave *)

MaxLeaveApplications == 2

\* the histories of the two requests
ServerHistories ==
    {[isArray |-> TRUE, entries |-> <<u>>] : u \in {<<"stock", "pumps">>, <<"steps">>}}

\* the decisions the model gives the two requests
ServerDecisionBodies ==
    {ToolCall("get_sap_definition", TRUE, Params([term |-> Str(<<"FB60">>)])),
     ToolCall("get_sap_definition", TRUE, Params([term |-> Str(<<"zzqq">>)])),
     ToolCall("get_sap_definition", TRUE, Params([term |-> Num(60)])),
     ToolCall("query_inventory", TRUE,
              Params([comparison |-> Str(<<"less", " ", "than">>), quantity |-> Num(10)])),
     ToolCall("get_sales_orders", TRUE, Params([status |-> Str(<<"Open">>)])),
     ToolCall("show_leave_application_form", FALSE, NoParams),
     ToolCall("unknown_tool", TRUE, NoParams),
     [type |-> "text", tool_name |-> "", hasParameters |-> FALSE,
      parameters |-> NoParams, content |-> "Hello!"]}

\* what axios.post does for the two requests: a 503, or one of `replies`
ServerOutcomes(replies) == {HttpError(503)} \cup {Completion(r) : r \in replies}

ServerDecisionReplies == {Raw(0, "{", TRUE, b, "json") : b \in ServerDecisionBodies}

ServerExtractionReplies ==
    {Raw(0, "{", TRUE, ParamsObject(Params([material_id |-> Str(<<"pumps">>)])), "json"),
     Raw(0, "{", TRUE, ParamsObject(NoParams), "json")}

\* the locals of the running invocation
Frame ==
    [messageHistory |-> messageHistory, pc |-> pc,
     originalUserQuery |-> originalUserQuery, decisionResult |-> decisionResult,
     decision |-> decision, parameters |-> parameters,
     extractionResult |-> extractionResult, extracted |-> extracted,
     ranExtraction |-> ranExtraction, prompt |-> prompt, finalResult |-> finalResult,
     llmCalls |-> llmCalls, searches |-> searches, toolRun |-> toolRun,
     response |-> response]

\* variant: `parameters` is one module-level variable that every invocation uses
RestoreSharedParameters(f) ==
    /\ messageHistory' = f.messageHistory
    /\ pc' = f.pc
    /\ originalUserQuery' = f.originalUserQuery
    /\ decisionResult' = f.decisionResult
    /\ decision' = f.decision
    /\ parameters' = parameters
    /\ extractionResult' = f.extractionResult
    /\ extracted' = f.extracted
    /\ ranExtraction' = f.ranExtraction
    /\ prompt' = f.prompt
    /\ finalResult' = f.finalResult
    /\ llmCalls' = f.llmCalls
    /\ searches' = f.searches
    /\ toolRun' = f.toolRun
    /\ response' = f.response

\* the invocation with locals f goes on: each invocation of the async
\* handler has its own req, res and block-scoped variables
Restore(f) ==
    /\ messageHistory' = f.messageHistory
    /\ pc' = f.pc
    /\ originalUserQuery' = f.originalUserQuery
    /\ decisionResult' = f.decisionResult
    /\ decision' = f.decision
    /\ parameters' = f.parameters
    /\ extractionResult' = f.extractionResult
    /\ extracted' = f.extracted
    /\ ranExtraction' = f.ranExtraction
    /\ prompt' = f.prompt
    /\ finalResult' = f.finalResult
    /\ llmCalls' = f.llmCalls
    /\ searches' = f.searches
    /\ toolRun' = f.toolRun
    /\ response' = f.response

\* the running invocation has history h and has not started
Fresh(h) ==
    /\ messageHistory = h
    /\ pc = "received"
    /\ originalUserQuery = <<>>
    /\ decisionResult = NoResult
    /\ decision = NoBody
    /\ parameters = NoParams
    /\ extractionResult = NoResult
    /\ extracted = NoParams
    /\ ranExtraction = FALSE
    /\ prompt = NoPrompt
    /\ finalResult = NoResult
    /\ llmCalls = <<>>
    /\ searches = <<>>
    /\ toolRun = "none"
    /\ response = NoResponse

\* two chat requests have arrived, neither handler has started
ServerInit ==
    /\ build \in {"index", "part_009"}
    /\ hasKey \in BOOLEAN
    /\ \E h \in ServerHistories : Fresh(h)
    /\ current = 1
    /\ suspended \in {NewFrame(h) : h \in ServerHistories}
    /\ loaded = Loaded(build)
    /\ leaveApplications = LeaveStore(TRUE, <<>>)
    /\ leaveResponse = NoResponse
    /\ FirstRender(NoEntry)

\* the running invocation goes from one await to the next, its model call
\* returning one of the server's replies
ChatStep ==
    \/ Receive
    \/ pc = "classify" /\ ClassifierReturns(ServerOutcomes(ServerDecisionReplies))
    \/ pc = "extract" /\ ExtractionReturns(ServerOutcomes(ServerExtractionReplies))
    \/ pc = "explain" /\ ExplanationReturns(ServerOutcomes(TextReplies))
    \/ pc = "clarify" /\ ClarificationReturns(ServerOutcomes(TextReplies))

\* variant: the model call blocks the server, which turns to the other
\* request only once the running one has responded
SwitchWhenResponded ==
    /\ pc = "done"
    /\ suspended.pc \notin {"absent", "done"}
    /\ current' = 3 - current
    /\ suspended' = Frame
    /\ Restore(suspended)
    /\ UNCHANGED <<build, hasKey, loaded, leaveApplications, leaveResponse>>
    /\ UNCHANGED client

\* the event loop turns to the other request, which has not responded yet
Switch ==
    /\ suspended.pc \notin {"absent", "done"}
    /\ current' = 3 - current
    /\ suspended' = Frame
    /\ Restore(suspended)
    /\ UNCHANGED <<build, hasKey, loaded, leaveApplications, leaveResponse>>
    /\ UNCHANGED client

\* request bodies of POST /api/submit-leave
LeaveBodies ==
    {[isObject |-> FALSE, fields |-> <<>>],
     [isObject |-> TRUE, fields |-> <<>>],
     [isObject |-> TRUE, fields |-> [reason |-> "trip"]],
     [isObject |-> TRUE, fields |-> [reason |-> "trip", status |-> "Approved"]]}

\* variant: { id: Date.now(), status: 'Submitted', ...newLeaveData }
NewEntryClientLast(now, fields) == fields @@ [status |-> "Submitted"] @@ [id |-> now]

\* { id: Date.now(), ...newLeaveData, status: 'Submitted' }
NewEntry(now, fields) == [status |-> "Submitted"] @@ fields @@ [id |-> now]

\* variant: the write holds the new entry alone, as after a read of []
PushedAlone(store, entry) == LeaveStore(TRUE, <<entry>>)

\* the store after the push and the write
Pushed(store, entry) ==
    LeaveStore(TRUE, Append(IF store.isArray THEN store.entries ELSE <<>>, entry))

\* the synchronous handler of POST /api/submit-leave; `written` is whether
\* fs.writeFileSync succeeded
SubmitLeave ==
    /\ Len(leaveApplications.entries) < MaxLeaveApplications
    /\ \E body \in LeaveBodies, now \in 1..2, written \in BOOLEAN :
        IF ~body.isObject \/ DOMAIN body.fields = {}
        THEN /\ leaveResponse' = ErrorResponse(400, "Invalid leave data provided.")
             /\ UNCHANGED leaveApplications
        ELSE IF ~written
        THEN /\ leaveResponse' = ErrorResponse(500, "Failed to save the leave application.")
             /\ UNCHANGED leaveApplications
        ELSE /\ leaveApplications' = Pushed(leaveApplications, NewEntry(now, body.fields))
             /\ leaveResponse' = Json(TextPayload(FixedText(
                    "Thanks! Your leave application has been successfully submitted and saved.")))
    /\ UNCHANGED <<build, hasKey, current, suspended, loaded>>
    /\ UNCHANGED locals
    /\ UNCHANGED client

ServerNext ==
    \/ ChatStep
    \/ Switch

Server == ServerInit /\ [][ServerNext]_vars

\* a stretch of request i's handler
StepOf(i) == current = i /\ ChatStep

\* The model calls of request 2 return and the event loop runs every ready
\* continuation; nothing is assumed of request 1, whose call may never return.
\* Request 2 can only step while it is the running one, hence SF.
ServerFair == Server /\ WF_vars(Switch) /\ SF_vars(StepOf(2))

\* one chat request, and leave submissions arriving at any time
BackendInit ==
    /\ build \in {"index", "part_009"}
    /\ hasKey \in BOOLEAN
    /\ \E h \in ServerHistories : Fresh(h)
    /\ current = 1
    /\ suspended = NoFrame
    /\ loaded = Loaded(build)
    /\ leaveApplications \in {LeaveStore(TRUE, <<>>), LeaveStore(FALSE, <<>>)}
    /\ leaveResponse = NoResponse
    /\ FirstRender(NoEntry)

BackendNext ==
    \/ ChatStep
    \/ SubmitLeave

Backend == BackendInit /\ [][BackendNext]_vars

----------------------------------------------------------------------------
(* The page: the chat-session hook and handleSendMessage.  A handler reads *)
(* the state of the last render and queues its state updates; the next    *)
(* render applies the queue in order and runs the effects.                 *)

\* the sessions Date.now() gives an id to
MaxSessions == 2

NewConversation == "New Conversation"

\* { id: Date.now().toString(), title: "New Conversation", messages: [], pinned: false }
NewSession(now) ==
    [id |-> now, title |-> NewConversation, messages |-> <<>>, pinned |-> FALSE]

\* the message of request r with the given role; r = 0 for a saved message
Message(role, r) == [role |-> role, request |-> r]

\* the lists a former visit may have left in localStorage
SavedSession(id, messages) ==
    [id |-> id, title |-> "first message", messages |-> messages, pinned |-> FALSE]
SavedEntries ==
    {NoEntry,
     Entry(<<SavedSession(11, <<Message("user", 0), Message("assistant", 0)>>)>>)}

\* a queued state update
Update(op, id, list, msg, flag) ==
    [op |-> op, id |-> id, list |-> list, msg |-> msg, flag |-> flag]
NoMessage == Message("", 0)
SetSessions(list) == Update("setSessions", 0, list, NoMessage, FALSE)
Prepend(session) == Update("prepend", 0, <<session>>, NoMessage, FALSE)
AddMessage(id, msg) == Update("addMessage", id, <<>>, msg, FALSE)
Rename(id) == Update("rename", id, <<>>, NoMessage, FALSE)
TogglePin(id) == Update("togglePin", id, <<>>, NoMessage, FALSE)
SetActiveSessionId(id) == Update("setActiveSessionId", id, <<>>, NoMessage, FALSE)
SetIsBotTyping(flag) == Update("setIsBotTyping", 0, <<>>, NoMessage, flag)

SessionUpdates == {"setSessions", "prepend", "addMessage", "rename", "togglePin"}

\* addMessageToSession's updater on one session
WithMessage(s, msg) ==
    [s EXCEPT !.messages = Append(@, msg),
              !.title = IF s.messages = <<>> /\ msg.role = "user"
                        THEN "first message" ELSE @]

\* the sessions after one update
SessionsAfter(list, u) ==
    CASE u.op = "setSessions" -> u.list
      [] u.op = "prepend" -> u.list \o list
      [] u.op = "addMessage" ->
            [i \in 1..Len(list) |->
                IF list[i].id = u.id THEN WithMessage(list[i], u.msg) ELSE list[i]]
      [] u.op = "rename" ->
            [i \in 1..Len(list) |->
                IF list[i].id = u.id THEN [list[i] EXCEPT !.title = "renamed"]
                ELSE list[i]]
      [] u.op = "togglePin" ->
            [i \in 1..Len(list) |->
                IF list[i].id = u.id THEN [list[i] EXCEPT !.pinned = ~@] ELSE list[i]]
      [] OTHER -> list

\* the state after the queued updates, applied in order
RECURSIVE Applied(_, _)
Applied(st, us) ==
    IF us = <<>> THEN st
    ELSE Applied([sessions |-> SessionsAfter(st.sessions, us[1]),
                  activeSessionId |-> IF us[1].op = "setActiveSessionId"
                                      THEN us[1].id ELSE st.activeSessionId,
                  isBotTyping |-> IF us[1].op = "setIsBotTyping"
                                  THEN us[1].flag ELSE st.isBotTyping],
                 Tail(us))

Rendered == [sessions |-> sessions, activeSessionId |-> activeSessionId,
             isBotTyping |-> isBotTyping]

\* handleNewChat over the `sessions` of the last render: the session it
\* returns and the updates it queues
handleNewChat(list, now) ==
    IF list # <<>> /\ list[1].messages = <<>>
    THEN [session |-> list[1], created |-> FALSE, updates |-> <<>>]
    ELSE [session |-> NewSession(now), created |-> TRUE,
          updates |-> <<Prepend(NewSession(now)), SetActiveSessionId(now)>>]

\* controller.abort(): a request still in flight is aborted
Aborted(reqs, r) ==
    IF r # 0 /\ reqs[r].status = "inflight"
    THEN [reqs EXCEPT ![r].status = "aborted"]
    ELSE reqs

\* the save effect: setItem when there are sessions, removeItem when none
Saved(list) == IF Len(list) > 0 THEN Entry(list) ELSE NoEntry

\* nothing of the server changes
BackendIdle == UNCHANGED <<build, hasKey, locals, server>>

\* the effects after the first render, in the order of their declaration:
\* the load effect, then the save effect with the `sessions` of that render
MountEffects ==
    /\ ~initialized
    /\ initialized' = TRUE
    /\ pending' =
        IF chatSessions.present
        THEN <<SetSessions(chatSessions.value)>> \o
                (IF Len(chatSessions.value) > 0
                 THEN <<SetActiveSessionId(chatSessions.value[1].id)>>
                 ELSE handleNewChat(sessions, clock + 1).updates)
        ELSE handleNewChat(sessions, clock + 1).updates
    /\ clock' = IF chatSessions.present /\ Len(chatSessions.value) > 0
                THEN clock ELSE clock + 1
    /\ chatSessions' = Saved(sessions)
    /\ UNCHANGED <<sessions, activeSessionId, isBotTyping, abortControllerRef, requests>>
    /\ BackendIdle

\* a render commits `st`, the state after the updates `us`, when the
\* controllers' requests are `reqs`: the cleanup of the abort effect runs
\* when activeSessionId changed, the save effect when sessions was set
Commit(st, us, reqs, ref, now) ==
    /\ sessions' = st.sessions
    /\ activeSessionId' = st.activeSessionId
    /\ isBotTyping' = st.isBotTyping
    /\ requests' = IF st.activeSessionId # activeSessionId THEN Aborted(reqs, ref)
                   ELSE reqs
    /\ abortControllerRef' = ref
    /\ chatSessions' = IF \E i \in 1..Len(us) : us[i].op \in SessionUpdates
                       THEN Saved(st.sessions) ELSE chatSessions
    /\ pending' = <<>>
    /\ clock' = now
    /\ UNCHANGED initialized
    /\ BackendIdle

\* the render scheduled by the updates of an effect or of a continuation
Render ==
    /\ pending # <<>>
    /\ Commit(Applied(Rendered, pending), pending, requests, abortControllerRef, clock)

\* a handler of a click or a key press queues `updates` over the state of
\* the last render, and the render follows before the event ends; what
\* effects and continuations had queued is applied first
Handle(updates, reqs, ref, now) ==
    /\ initialized
    /\ Commit(Applied(Rendered, pending \o updates), pending \o updates, reqs, ref, now)

\* the New Chat button: handleNewChat(true)
NewChat ==
    /\ clock < MaxSessions
    /\ Handle(handleNewChat(sessions, clock + 1).updates, requests, abortControllerRef,
              IF handleNewChat(sessions, clock + 1).created THEN clock + 1 ELSE clock)

\* the ids of the sessions the sidebar shows
ShownIds == {sessions[i].id : i \in 1..Len(sessions)}

SelectSession ==
    \E id \in ShownIds :
        Handle(<<SetActiveSessionId(id)>>, requests, abortControllerRef, clock)

\* handleDeleteSession(id) over the state of the last render
DeleteUpdates(id, now) ==
    LET updated == SelectSeq(sessions, LAMBDA s : s.id # id)
    IN <<SetSessions(updated)>> \o
        (IF activeSessionId = id
         THEN IF Len(updated) > 0 THEN <<SetActiveSessionId(updated[1].id)>>
              ELSE handleNewChat(sessions, now).updates
         ELSE <<>>)

DeleteSession ==
    /\ Len(sessions) = 1 => clock < MaxSessions
    /\ \E id \in ShownIds :
            Handle(DeleteUpdates(id, clock + 1), requests, abortControllerRef,
                   IF /\ activeSessionId = id
                      /\ Len(sessions) = 1
                      /\ handleNewChat(sessions, clock + 1).created
                   THEN clock + 1 ELSE clock)

ClearAll ==
    /\ clock < MaxSessions
    /\ Handle(<<SetSessions(<<NewSession(clock + 1)>>), SetActiveSessionId(clock + 1)>>,
              requests, abortControllerRef, clock + 1)

\* the user renames, or pins and unpins, the session at the top of the sidebar
RenameSession ==
    /\ sessions # <<>>
    /\ Handle(<<Rename(sessions[1].id)>>, requests, abortControllerRef, clock)

TogglePinSession ==
    /\ sessions # <<>>
    /\ Handle(<<TogglePin(sessions[1].id)>>, requests, abortControllerRef, clock)

\* handleSendMessage up to its fetch, as request r; `chat` is what
\* handleNewChat(false) gives when there is no active session
Send(r, currentSessionId, chat) ==
    Handle((IF activeSessionId # 0 THEN <<>> ELSE chat.updates) \o
                <<AddMessage(currentSessionId, Message("user", r)), SetIsBotTyping(TRUE)>>,
           [Aborted(requests, abortControllerRef) EXCEPT
                ![r] = [status |-> "inflight", session |-> currentSessionId]],
           r,
           IF activeSessionId = 0 /\ chat.created THEN clock + 1 ELSE clock)

SendMessage ==
    /\ activeSessionId = 0 => clock < MaxSessions
    /\ \E r \in 1..MaxRequests :
        /\ requests[r].status = "unsent"
        /\ \A q \in 1..(r - 1) : requests[q].status # "unsent"
        /\ Send(r, IF activeSessionId # 0 THEN activeSessionId
                   ELSE handleNewChat(sessions, clock + 1).session.id,
                handleNewChat(sessions, clock + 1))

\* the continuation of handleSendMessage for request r queues `updates`
Settle(r, updates) ==
    /\ requests' = [requests EXCEPT ![r].status = "settled"]
    /\ pending' = pending \o updates
    /\ UNCHANGED <<sessions, activeSessionId, isBotTyping, initialized, chatSessions,
                   abortControllerRef, clock>>
    /\ BackendIdle

\* fetch and response.json() resolve: the reply is added, then the finally
FetchReplied ==
    \E r \in 1..MaxRequests :
        /\ requests[r].status = "inflight"
        /\ Settle(r, <<AddMessage(requests[r].session, Message("assistant", r)),
                       SetIsBotTyping(FALSE)>>)

\* a response that is not ok, or a network error: the toast, then the finally
FetchFailed ==
    \E r \in 1..MaxRequests :
        /\ requests[r].status = "inflight"
        /\ Settle(r, <<SetIsBotTyping(FALSE)>>)

\* the AbortError of an aborted request: the catch returns, then the finally
FetchAborted ==
    \E r \in 1..MaxRequests :
        /\ requests[r].status = "aborted"
        /\ Settle(r, <<SetIsBotTyping(FALSE)>>)

\* the page is opened over what a former visit left in localStorage
PageInit ==
    /\ build = "index"
    /\ hasKey = TRUE
    /\ Fresh([isArray |-> TRUE, entries |-> <<<<"steps">>>>])
    /\ current = 1
    /\ suspended = NoFrame
    /\ loaded = Loaded(build)
    /\ leaveApplications = LeaveStore(TRUE, <<>>)
    /\ leaveResponse = NoResponse
    /\ \E entry \in SavedEntries : FirstRender(entry)

PageNext ==
    \/ MountEffects
    \/ Render
    \/ NewChat
    \/ SelectSession
    \/ DeleteSession
    \/ ClearAll
    \/ RenameSession
    \/ TogglePinSession
    \/ SendMessage
    \/ FetchReplied
    \/ FetchFailed
    \/ FetchAborted

Page == PageInit /\ [][PageNext]_vars

----------------------------------------------------------------------------
(* Properties of POST /api/chat *)

Range(f) == {f[i] : i \in DOMAIN f}

\* the classification call was issued and has returned
Classified == llmCalls # <<>> /\ pc # "classify"

IsToolCall(d) == d.type = "tool_call" /\ d.tool_name # ""
IsTextDecision(d) == d.type = "text"

\* the classification call succeeded and its reply is not valid JSON
ReplyUnparsed ==
    /\ Classified
    /\ ~decisionResult.error
    /\ ~JsonParse(decisionResult.content).ok

\* a text payload with non-empty content
NonEmptyText(t) ==
    \/ t.k \in {"fixed", "template", "decision"} /\ t.m # ""
    \/ t.k = "reply" /\ t.raw # NoRaw

IsTextResponse(r) ==
    r.sent /\ r.status = 200 /\ r.body.type = "text" /\ NonEmptyText(r.body.content)

IsErrorResponse(r) == r.sent /\ r.status >= 400 /\ r.body = NoPayload

\* C1: when the classifier's reply is not valid JSON, a reply whose trimmed
\* text does not start with "{" is sent back verbatim as a text payload; any
\* other reply ends the request in the error "Failed to interpret AI
\* decision." and no tool is executed.
C1_NonJsonReply ==
    ReplyUnparsed =>
        /\ pc = "done"
        /\ toolRun = "none" /\ searches = <<>> /\ llmCalls = <<"classify">>
        /\ IF decisionResult.content.open # "{"
           THEN response = Json(TextPayload(ReplyText(decisionResult.content)))
           ELSE response = ErrorResponse(500, "Failed to interpret AI decision.")

\* a reply with a blank before its "{" that does not parse ended in the error
C1_Witness ==
    /\ ReplyUnparsed
    /\ decisionResult.content.ws = 1 /\ decisionResult.content.open = "{"
    /\ response.status = 500

\* C2: when the classification call fails (no key, no answer, an HTTP error,
\* empty content) the request ends in an error response with the call's
\* status and message: no decision, no tool, no search, no further model call.
C2_ClassificationCallFailed ==
    (Classified /\ decisionResult.error) =>
        /\ pc = "done"
        /\ IsErrorResponse(response)
        /\ response.error = decisionResult.message
        /\ decision = NoBody /\ parameters = NoParams
        /\ toolRun = "none" /\ searches = <<>>
        /\ llmCalls = <<"classify">> /\ ~ranExtraction

\* the key is set and the service answered 429: the request ended with 429
C2_Witness ==
    /\ Classified /\ hasKey
    /\ decisionResult.error /\ decisionResult.status = 429
    /\ response.status = 429

\* C3: a request with a non-empty history ends in an error response only
\* when the classification call failed or the classifier's reply is neither
\* a text decision nor a tool call; every other path ends in a payload.
C3_ErrorsOnlyFromClassification ==
    (pc = "done" /\ llmCalls # <<>> /\ response.status # 200) =>
        \/ decisionResult.error
        \/ ~(IsToolCall(decision) \/ IsTextDecision(decision))

\* C4: a tool call naming no registered tool runs the default case, which
\* waits for the clarification call and then always sends a text payload
\* with non-empty content, whether or not that call succeeded.
C4_UnknownToolClarifies ==
    (Classified /\ IsToolCall(decision) /\ decision.tool_name \notin ToolNames) =>
        /\ toolRun = "default" /\ searches = <<>> /\ ~ranExtraction
        /\ pc \in {"clarify", "done"}
        /\ pc = "clarify" => ~response.sent
        /\ pc = "done" => IsTextResponse(response)

\* the clarification call failed and the fixed apology was sent
C4_Witness ==
    /\ pc = "done" /\ IsToolCall(decision) /\ decision.tool_name \notin ToolNames
    /\ finalResult.error
    /\ response.body.content.k = "fixed"

\* the key parameter of a data tool
KeyParam(tool) ==
    CASE tool = "query_inventory" -> "material_id"
      [] tool = "get_sales_orders" -> "customer"
      [] tool = "get_purchase_orders" -> "vendor"
      [] OTHER -> "term"

\* the utterance matches the tool's omission pattern
MatchesPattern(tool, u) ==
    CASE tool = "query_inventory" -> InventoryPattern(u)
      [] tool = "get_sales_orders" -> OrderPattern(u, "customer")
      [] tool = "get_purchase_orders" -> OrderPattern(u, "vendor")
      [] OTHER -> FALSE

\* C5: the secondary extraction runs only for a tool other than
\* show_leave_application_form, and only when the classifier returned no
\* parameters at all or the tool's key parameter is missing and the utterance
\* matches the tool's pattern; otherwise no extraction call is made and the
\* classifier's parameters are the ones executed.
C5_ExtractionOnlyWhenNeeded ==
    (Classified /\ IsToolCall(decision)) =>
        /\ ranExtraction =>
            /\ decision.tool_name # "show_leave_application_form"
            /\ \/ ObjectKeys(InitialParams(decision)) = {}
               \/ /\ ~Truthy(InitialParams(decision)[KeyParam(decision.tool_name)])
                  /\ MatchesPattern(decision.tool_name, originalUserQuery)
        /\ ~ranExtraction =>
            /\ "extract" \notin Range(llmCalls)
            /\ parameters = InitialParams(decision)

\* the extraction was started by the pattern, the classifier having given
\* some parameters but not the key one
C5_Witness ==
    /\ pc = "extract" /\ ranExtraction
    /\ ObjectKeys(InitialParams(decision)) # {}
    /\ MatchesPattern(decision.tool_name, originalUserQuery)

\* the merge after the extraction has happened
Merged == Classified /\ ranExtraction /\ pc # "extract"

\* C6: after a secondary extraction every key of the extractor's output has
\* the extractor's value, every other key has the classifier's value, and
\* no key of the classifier's parameters is dropped.
C6_MergePrecedence ==
    Merged =>
        /\ \A k \in ParamKeys :
            parameters[k] = IF k \in ObjectKeys(extracted)
                            THEN extracted[k]
                            ELSE InitialParams(decision)[k]
        /\ ObjectKeys(InitialParams(decision)) \subseteq ObjectKeys(parameters)

\* both gave a comparison and differ, and only the classifier gave a quantity
C6_Witness ==
    /\ Merged
    /\ extracted["comparison"] # Undef
    /\ InitialParams(decision)["comparison"] # Undef
    /\ extracted["comparison"] # InitialParams(decision)["comparison"]
    /\ extracted["quantity"] = Undef
    /\ InitialParams(decision)["quantity"] # Undef
    /\ parameters["comparison"] = extracted["comparison"]
    /\ parameters["quantity"] = InitialParams(decision)["quantity"]

\* the extraction call was made and failed, or its reply is not valid JSON
ExtractionFailed ==
    /\ Merged /\ "extract" \in Range(llmCalls)
    /\ \/ extractionResult.error
       \/ ~JsonParse(extractionResult.content).ok

\* C7: when the extraction call fails or returns malformed JSON,
\* extractParameters yields no parameters, the classifier's parameters are
\* kept as they were, and the tool runs and its payload is the response.
C7_ExtractionFailureDegrades ==
    ExtractionFailed =>
        /\ extracted = NoParams
        /\ parameters = InitialParams(decision)
        /\ toolRun = decision.tool_name
        /\ pc = "done"
        /\ response.status = 200 /\ response.body.type = "table"

\* the classifier's parameters name no filter at all
NoFilter(tool, p) ==
    IF tool = "query_inventory"
    THEN ~Truthy(p["material_id"]) /\ ~(Truthy(p["comparison"]) /\ Truthy(p["quantity"]))
    ELSE ~Truthy(p[KeyParam(tool)]) /\ ~Truthy(p["status"]) /\ ~Truthy(p["material"])

WholeTable(tool) ==
    IF tool = "query_inventory"
    THEN TablePayload(InventoryColumns, stockList)
    ELSE TablePayload(OrderColumns(tool),
            [i \in 1..Len(OrderData(tool)) |-> MapOrder(tool, OrderData(tool)[i])])

\* C8: a tool whose key parameter is still missing when it runs never
\* throws: get_sap_definition answers with a clarification text and makes
\* no explanation call; a data tool without any filter sends its whole
\* dataset as a table.
C8_MissingKeyParameter ==
    (/\ Classified /\ pc # "extract" /\ IsToolCall(decision)
     /\ decision.tool_name \in needsParamsTools
     /\ ~Truthy(parameters[KeyParam(decision.tool_name)])) =>
        /\ pc = "done" /\ response.status = 200
        /\ decision.tool_name = "get_sap_definition" =>
            /\ IsTextResponse(response)
            /\ "explain" \notin Range(llmCalls)
        /\ (/\ decision.tool_name # "get_sap_definition"
            /\ NoFilter(decision.tool_name, parameters)) =>
                response = Json(WholeTable(decision.tool_name))

\* query_inventory ran on a string material query without a numeric filter
MaterialQueryOnly ==
    /\ pc = "done" /\ toolRun = "query_inventory"
    /\ IsString(parameters["material_id"]) /\ Truthy(parameters["material_id"])
    /\ ~(Truthy(parameters["comparison"]) /\ Truthy(parameters["quantity"]))

\* C9: for query_inventory a material query naming several items is split
\* into terms, each term is searched on its own, and the table is the union
\* of the terms' results, one row per material, in first-seen order:
\* "pumps and bearings" gives the union of "pumps" and of "bearings".
C9_MultiItemUnion ==
    MaterialQueryOnly =>
        /\ response.status = 200
        /\ response.body.tableData =
            SearchEach(extractMultipleItems(parameters["material_id"]).items,
                       stockList, {"Material", "Description"}, "Material", <<>>)
        /\ parameters["material_id"] = Str(<<"pumps", " ", "and", " ", "bearings">>) =>
            response.body.tableData =
                DedupInto(Items(stockFuseSearch(Str(<<"pumps">>))),
                          Items(stockFuseSearch(Str(<<"bearings">>))), "Material")

\* C10: query_inventory with an empty or missing material query and no
\* numeric filter sends every stock record; whatever the material query is,
\* without a numeric filter the tool raises no error.
C10_EmptyQueryAllStock ==
    (/\ pc = "done" /\ toolRun = "query_inventory"
     /\ ~(Truthy(parameters["comparison"]) /\ Truthy(parameters["quantity"]))) =>
        /\ response.status = 200
        /\ ~Truthy(parameters["material_id"]) =>
            response = Json(TablePayload(InventoryColumns, stockList))

\* query_inventory ran with a material query that is a string or missing,
\* a comparison that names a direction and a quantity that is a number N
NumericFilterAsked ==
    /\ pc = "done" /\ toolRun = "query_inventory"
    /\ ~Truthy(parameters["material_id"]) \/ IsString(parameters["material_id"])
    /\ IsString(parameters["comparison"])
    /\ Includes(LowerSeq(parameters["comparison"].s), {"less", "<", "more", "greater", ">"})
    /\ ~ParseInt(parameters["quantity"]).nan

\* the rows whose stock level parses and lies on the asked side of n
RowsBeyond(rows, cmp, n) ==
    SelectSeq(rows, LAMBDA r :
        /\ ~ParseInt(r.StockLevel).nan
        /\ IF Includes(cmp, {"less", "<"})
           THEN ParseInt(r.StockLevel).v < n
           ELSE ParseInt(r.StockLevel).v > n)

\* C11: for every set of matched stock records and every threshold N the
\* less-than filter sends exactly the records whose stock level parses to
\* an integer smaller than N, the greater-than filter exactly those greater
\* than N; a record whose stock level does not parse is left out and no
\* error is raised.
C11_NumericFilterExact ==
    NumericFilterAsked =>
        /\ response.status = 200
        /\ response.body.tableData =
            RowsBeyond(InventoryMatches(build, parameters["material_id"]).rows,
                       LowerSeq(parameters["comparison"].s),
                       ParseInt(parameters["quantity"]).v)

\* an order tool ran and sent its table
OrdersSent ==
    /\ pc = "done" /\ toolRun \in {"get_sales_orders", "get_purchase_orders"}
    /\ response.status = 200

\* the filters the deployed build has for the order tools and that the
\* final parameters supply
NameSupplied == Truthy(parameters[NameParam(toolRun)])
MaterialSupplied == build = "part_009" /\ Truthy(parameters["material"])
StatusSupplied == Truthy(parameters["status"])

\* whether one order on its own is matched by a search for value v on keys
Matches(order, keys, v) ==
    IsString(v) /\ ItemScore(order, keys, v.s) <= FuseThreshold

MatchesAnyItem(order, v) ==
    \E i \in 1..Len(extractMultipleItems(v).items) :
        Matches(order, {"material"}, Str(extractMultipleItems(v).items[i]))

NameKeys(tool) ==
    IF tool = "get_sales_orders" THEN salesOrderFuseKeys(build)
    ELSE purchaseOrderFuseKeys(build)

\* the ids of the orders of the list that pass every supplied filter
PassingIds ==
    {OrderData(toolRun)[i].id : i \in
        {j \in 1..Len(OrderData(toolRun)) :
            /\ NameSupplied =>
                Matches(OrderData(toolRun)[j], NameKeys(toolRun),
                        parameters[NameParam(toolRun)])
            /\ MaterialSupplied => MatchesAnyItem(OrderData(toolRun)[j], parameters["material"])
            /\ StatusSupplied => Matches(OrderData(toolRun)[j], {"status"}, parameters["status"])}}

\* the searches in the fixed order: name, then one per material item, then status
SearchesInOrder ==
    (IF NameSupplied THEN <<OrderIndexName(toolRun)>> ELSE <<>>)
    \o (IF MaterialSupplied
        THEN [i \in 1..Len(extractMultipleItems(parameters["material"]).items) |-> "material"]
        ELSE <<>>)
    \o (IF StatusSupplied THEN <<"status">> ELSE <<>>)

DefinitionAsked ==
    /\ Classified /\ pc # "extract" /\ toolRun = "get_sap_definition"
    /\ IsString(parameters["term"]) /\ Truthy(parameters["term"])

\* the confidence cutoff of the deployed build
Cutoff == IF build = "index" THEN GoodKbCutoff ELSE TopResultsCutoff

\* the knowledge-base candidates for the term, best first
Candidates ==
    knowledgeFuseSearch(IF build = "index"
                        THEN Str(Normalize(parameters["term"].s))
                        ELSE parameters["term"])

\* the first three candidates, those under the cutoff
TopUnderCutoff ==
    SelectSeq(SubSeq(Candidates, 1, Min(TopResultsLimit, Len(Candidates))),
              LAMBDA r : r.score < Cutoff)

\* C13: get_sap_definition with a term takes up to the top 3 candidates
\* whose score is below the cutoff; the prompt is the grounded one, built
\* from those candidates, exactly when at least one candidate is under the
\* cutoff, and the ungrounded fallback prompt otherwise.
C13_TopThreeGroundPrompt ==
    DefinitionAsked =>
        /\ prompt.kind = "explain"
        /\ prompt.context = Items(TopUnderCutoff)
        /\ prompt.grounded <=> (\E i \in 1..Len(Candidates) : Candidates[i].score < Cutoff)

\* a definition request with a term has ended
DefinitionEnded ==
    /\ Classified /\ pc = "done"
    /\ IsToolCall(decision) /\ decision.tool_name = "get_sap_definition"
    /\ Truthy(parameters["term"])

\* the explanation call answered and its text was sent
ExplanationSent ==
    /\ ~finalResult.error
    /\ response = Json(TextPayload(ReplyText(finalResult.content)))

GroundedSuccess == prompt.kind = "explain" /\ prompt.grounded /\ ExplanationSent

UngroundedSuccess ==
    /\ prompt.kind = "explain" /\ ~prompt.grounded /\ ExplanationSent
    /\ finalResult.content.id = "explanation"

\* the model's own "could not find" text, or the apology for its failure
UngroundedDecline ==
    /\ prompt.kind = "explain" /\ ~prompt.grounded
    /\ \/ ExplanationSent /\ finalResult.content.id = "could not find"
       \/ finalResult.error /\ IsTextResponse(response)

\* C14: every definition request that has a term ends in one of the three
\* terminal states grounded-success, ungrounded-success, ungrounded-decline,
\* each a text payload and not an error.
C14_DefinitionTerminalStates ==
    DefinitionEnded =>
        /\ IsTextResponse(response)
        /\ GroundedSuccess \/ UngroundedSuccess \/ UngroundedDecline

\* a definition request ended whose lookup was made and gave no candidate
\* under the cutoff
NoConfidentMatch ==
    /\ pc = "done" /\ toolRun = "get_sap_definition" /\ prompt.kind = "explain"
    /\ \A i \in 1..Len(Candidates) : Candidates[i].score >= Cutoff

\* the model's text that it could not find the term
AdmissionSent == ExplanationSent /\ finalResult.content.id = "could not find"

AfterTool(b, r, fres) ==
    IF r.threw THEN InternalError
    ELSE IF r.next = "done" THEN Json(r.payload)
    ELSE IF r.next = "explain" THEN Json(ExplanationPayload(b, fres, r.prompt.term))
    ELSE Json(FallbackPayload(fres))

\* the final parameters of tool call d when the extraction call gave eres
FinalParams(b, d, first, u, eres) ==
    IF runSecondaryExtraction(b, d.tool_name, first, u)
    THEN MergeParams(first, IF d.tool_name \in ExtractionPromptTools
                            THEN extractParametersResult(eres) ELSE NoParams)
    ELSE first

AfterDecision(b, step, u, eres, fres) ==
    IF step.kind = "respond" THEN step.response
    ELSE AfterTool(b, ExecuteTool(b, step.decision.tool_name,
                                  FinalParams(b, step.decision,
                                              InitialParams(step.decision), u, eres),
                                  u),
                   fres)

\* the response of the handler run on its own, from the first line to the
\* last, on the history of f and the results f's model calls returned
RunAlone(b, f) ==
    IF ~f.messageHistory.isArray \/ Len(f.messageHistory.entries) = 0
    THEN ErrorResponse(400, "Invalid messageHistory provided.")
    ELSE AfterDecision(b, DecisionStep(f.decisionResult),
                       f.messageHistory.entries[Len(f.messageHistory.entries)],
                       f.extractionResult, f.finalResult)

\* a request that has responded sent what it would have sent on its own
AsAlone(f) == f.pc = "done" => f.response = RunAlone(build, f)

ResponsesAsAlone == AsAlone(Frame) /\ AsAlone(suspended)

\* C16: however the two requests interleave at their awaits, each request's
\* response is the response of the handler run alone on the same utterance
\* and model replies, and a step of one request leaves the other request's
\* locals as they were.
C16_RequestsIsolated ==
    /\ []ResponsesAsAlone
    /\ [][current' = current => suspended' = suspended]_vars

\* the second request has answered, after its two model calls, while the
\* first, whose parameters differ, still waits for its extraction call
C16_Witness ==
    /\ current = 2 /\ pc = "done" /\ response.sent /\ Len(llmCalls) = 2
    /\ suspended.pc = "extract"
    /\ suspended.parameters # parameters

\* request i has sent its response
Responded(i) ==
    IF current = i THEN pc = "done" /\ response.sent
    ELSE suspended.pc = "done" /\ suspended.response.sent

\* request i waits for a model call
Waiting(i) ==
    IF current = i THEN pc \in {"classify", "extract", "explain", "clarify"}
    ELSE suspended.pc \in {"classify", "extract", "explain", "clarify"}

\* C17: a request whose own model calls return responds, whether or not the
\* other request's model call ever returns.
C17_OthersComplete == <>Responded(2)

\* request 2 has responded while request 1 still waits for its first call
C17_Witness ==
    /\ Responded(2) /\ Waiting(1)
    /\ current = 2 /\ suspended.llmCalls = <<"classify">>

\* the form tool ended the request with the form trigger alone: no search,
\* no further model call
FormOnly ==
    toolRun = "show_leave_application_form" =>
        /\ pc = "done" /\ response = Json(FormPayload)
        /\ searches = <<>> /\ llmCalls = <<"classify">>

\* C18: a step of a chat request, on any path, leaves the datasets, their
\* indices and the tool list as loaded and leaves the leave store and the
\* leave endpoint's response as they were; show_leave_application_form
\* returns the form trigger and does nothing else.
C18_ChatChangesNoData ==
    /\ [](loaded = Loaded(build) /\ FormOnly)
    /\ [][pc' # pc =>
            /\ loaded' = loaded
            /\ leaveApplications' = leaveApplications
            /\ leaveResponse' = leaveResponse]_vars

\* the form trigger was sent while the leave store holds an application
C18_Witness ==
    /\ toolRun = "show_leave_application_form" /\ response = Json(FormPayload)
    /\ Len(leaveApplications.entries) = 1

\* the payload shapes
IsTextShape(p) ==
    p.type = "text" /\ NonEmptyText(p.content) /\ p.tableColumns = <<>> /\ p.tableData = <<>>
IsTableShape(p) == p.type = "table" /\ p.content = NoText /\ p.tableColumns # <<>>
IsFormShape(p) == p = FormPayload

\* how many of the shapes p has
ShapesOf(p) ==
    Cardinality({k \in {"text", "table", "form"} :
                    \/ k = "text" /\ IsTextShape(p)
                    \/ k = "table" /\ IsTableShape(p)
                    \/ k = "form" /\ IsFormShape(p)})

\* what has been sent is an error with no payload or a payload of one shape
OneShape ==
    response.sent =>
        IF response.status = 200 THEN ShapesOf(response.body) = 1 /\ response.error = ""
        ELSE IsErrorResponse(response) /\ response.error # ""

\* the handler has ended exactly when it has responded, and until then it
\* has not started or waits for a model call
RespondedWhenEnded ==
    /\ pc = "done" <=> response.sent
    /\ pc \in {"received", "classify", "extract", "explain", "clarify", "done"}

\* C19: a request that is not waiting for a model call has sent one
\* response, which is never replaced or followed by another, and a
\* response with status 200 has exactly one payload shape: text, table or
\* form trigger.
C19_OneResponseOneShape ==
    /\ [](OneShape /\ RespondedWhenEnded)
    /\ [][/\ response.sent => response' = response
          /\ response' # response => ~response.sent /\ response'.sent /\ pc' = "done"]_vars

\* a table was sent after the classification and the extraction calls
C19_Witness ==
    /\ pc = "done" /\ response.status = 200 /\ IsTableShape(response.body)
    /\ llmCalls = <<"classify", "extract">>

\* the classifier's reply parsed as JSON and is neither a text decision nor
\* a tool call with a tool name
UnusableDecision ==
    /\ Classified
    /\ ~decisionResult.error
    /\ JsonParse(decisionResult.content).ok
    /\ ~IsToolCall(JsonParse(decisionResult.content).body)
    /\ ~IsTextDecision(JsonParse(decisionResult.content).body)

\* C20: a classifier reply that parses as JSON but is neither a text
\* decision nor a tool call with a tool name ends the request with a 500
\* error; no case of the switch runs, no index is searched and no further
\* model call is made.
C20_UnusableDecisionIsError ==
    UnusableDecision =>
        /\ pc = "done"
        /\ IsErrorResponse(response) /\ response.status = 500 /\ response.error # ""
        /\ toolRun = "none"
        /\ searches = <<>>
        /\ llmCalls = <<"classify">>

\* type 'tool_call' with parameters but no tool name was answered with the
\* unexpected-format error
C20_Witness ==
    /\ UnusableDecision
    /\ JsonParse(decisionResult.content).body.type = "tool_call"
    /\ JsonParse(decisionResult.content).body.tool_name = ""
    /\ response.error = "Received an unexpected response format from the AI."

\* the secondary extraction was triggered for the decided tool
ExtractionTriggered == ranExtraction /\ decision.tool_name \in needsParamsTools

\* the model was asked for exactly the parameters of the decided tool
AskedForToolParameters ==
    /\ decision.tool_name \in ExtractionPromptTools
    /\ "extract" \in Range(llmCalls)
    /\ ExtractionPromptKeys(decision.tool_name) = ToolParameters(decision.tool_name)

\* C21: whenever the secondary extraction is triggered for a tool, that
\* tool has an extraction prompt, the prompt names exactly the parameters
\* the tool declares, and the model is asked with it.
C21_TriggeredExtractionAsks == ExtractionTriggered => AskedForToolParameters

\* the classification call failed
ClassificationFailed == Classified /\ decisionResult.error

\* the classifier's reply could not be used: a fragment that does not parse,
\* or a parsed value that is no decision
DecisionNotInterpreted ==
    /\ Classified /\ ~decisionResult.error
    /\ \/ ~JsonParse(decisionResult.content).ok /\ StartsWithBrace(decisionResult.content)
       \/ UnusableDecision

\* C22: a request that fails because the model call failed or the decision
\* could not be interpreted answers with a status from 500 to 599.
C22_FailureIsServerError ==
    ClassificationFailed \/ DecisionNotInterpreted =>
        response.sent /\ response.status \in 500..599

DataTools == {"query_inventory", "get_sales_orders", "get_purchase_orders"}

\* the fixed column list of a data tool
ColumnsOf(tool) == IF tool = "query_inventory" THEN InventoryColumns ELSE OrderColumns(tool)

\* a data tool was invoked and the request has ended
DataToolEnded == pc = "done" /\ toolRun \in DataTools

\* C23: every invocation of a data tool ends with a table payload carrying
\* that tool's column list, also when no record passes the filters.
C23_DataToolsSendTables ==
    DataToolEnded =>
        /\ response.status = 200
        /\ response.body.type = "table"
        /\ response.body.tableColumns = ColumnsOf(toolRun)

\* histories g and h are arrays with the same last entry
SameLastEntry(g, h) ==
    /\ g.isArray /\ h.isArray
    /\ Len(g.entries) > 0 /\ Len(h.entries) > 0
    /\ g.entries[Len(g.entries)] = h.entries[Len(h.entries)]

\* the locals of the running invocation, had its history been h
FrameWithHistory(h) == [Frame EXCEPT !.messageHistory = h]

\* C24: the response sent is the response of the handler on any history
\* with the same last entry, given the same results of the model calls:
\* earlier entries have no influence.
C24_OnlyLastEntryCounts ==
    pc = "done" =>
        \A h \in Histories :
            SameLastEntry(h, messageHistory) =>
                response = RunAlone(build, FrameWithHistory(h))

\* a table was sent for a history of two entries, after an extraction on
\* the utterance
C24_Witness ==
    /\ pc = "done" /\ Len(messageHistory.entries) = 2
    /\ messageHistory.entries[1] # messageHistory.entries[2]
    /\ ranExtraction /\ response.body.type = "table"

\* messageHistory is missing, not an array or empty
InvalidHistory == ~messageHistory.isArray \/ Len(messageHistory.entries) = 0

\* C25: a request with a missing, non-array or empty messageHistory is
\* answered 400 by the handler's first stretch: no model call is issued,
\* no index is searched and no tool runs.
C25_InvalidHistoryRejected ==
    InvalidHistory /\ pc # "received" =>
        /\ pc = "done"
        /\ response = ErrorResponse(400, "Invalid messageHistory provided.")
        /\ llmCalls = <<>> /\ searches = <<>> /\ toolRun = "none"
        /\ decisionResult = NoResult

\* an empty array was rejected
C25_Witness ==
    /\ messageHistory.isArray /\ messageHistory.entries = <<>>
    /\ response.status = 400 /\ llmCalls = <<>>

\* the applications a store holds; a store that is not an array holds none
Applications(store) == IF store.isArray THEN store.entries ELSE <<>>

\* the store was written in this step
StoreWritten == leaveApplications' # leaveApplications

\* the written store holds every application it held, in place, and one more
KeptAndAdded ==
    /\ leaveApplications'.isArray
    /\ Len(leaveApplications'.entries) = Len(Applications(leaveApplications)) + 1
    /\ \A i \in 1..Len(Applications(leaveApplications)) :
            leaveApplications'.entries[i] = leaveApplications.entries[i]

SameQuery(f, g) ==
    /\ f.pc = "done" /\ g.pc = "done"
    /\ f.toolRun \in DataTools /\ g.toolRun = f.toolRun
    /\ f.parameters = g.parameters

CallOrders ==
    {<<>>, <<"classify">>, <<"classify", "extract">>,
     <<"classify", "explain">>, <<"classify", "clarify">>}

\* the calls the handler has begun; the last one is pending while pc names it
CallsInOrder ==
    /\ llmCalls \in CallOrders
    /\ pc \in {"classify", "extract", "explain", "clarify"} =>
            llmCalls # <<>> /\ llmCalls[Len(llmCalls)] = pc

\* a tool runs only once the extraction call, if any, has returned, and no
\* model call but the explanation or clarification follows a tool
ToolAfterExtraction ==
    toolRun # "none" =>
        /\ pc # "extract"
        /\ "extract" \in Range(llmCalls) => extractionResult # NoResult

\* the new calls of a step: at most one, and never a call made before
NoRetry ==
    /\ Len(llmCalls') <= Len(llmCalls) + 1
    /\ SubSeq(llmCalls', 1, Len(llmCalls)) = llmCalls
    /\ Len(llmCalls') = Len(llmCalls) + 1 =>
            llmCalls'[Len(llmCalls')] \notin Range(llmCalls)

\* C29: a request makes at most two model calls: the classification call
\* first, then at most one of extraction (returned before the tool runs),
\* explanation or clarification; no call is made twice, also after a failure.
C29_CallsInFixedOrder ==
    /\ [](CallsInOrder /\ ToolAfterExtraction)
    /\ [][NoRetry]_vars

\* a failed extraction call was not retried: the tool ran on the classifier's
\* parameters after two calls
C29_Witness ==
    /\ pc = "done"
    /\ llmCalls = <<"classify", "extract">>
    /\ extractionResult.error
    /\ toolRun \in DataTools
    /\ response.status = 200

\* the classifier gave query_inventory a comparison and a quantity, the
\* extraction ran and its result holds null for both
NullOverClassifier ==
    /\ pc = "done"
    /\ decision.tool_name = "query_inventory"
    /\ ranExtraction /\ ~extractionResult.error
    /\ Truthy(InitialParams(decision)["comparison"])
    /\ Truthy(InitialParams(decision)["quantity"])
    /\ extracted["comparison"] = Null
    /\ extracted["quantity"] = Null

\* C30: after the merge the extractor's nulls stand in place of the
\* classifier's comparison and quantity, and the table holds every row the
\* material search gave, the numeric filter not applied.
C30_NullReplacesClassifierValue ==
    NullOverClassifier =>
        /\ parameters["comparison"] = Null
        /\ parameters["quantity"] = Null
        /\ response = Json(TablePayload(InventoryColumns,
                            InventoryMatches(build, parameters["material_id"]).rows))

\* the classifier asked for stock less than 10, the extractor returned
\* { material_id: 'pumps', comparison: null, quantity: null }, and the
\* table holds the pump with its stock of 50
C30_Witness ==
    /\ NullOverClassifier
    /\ InitialParams(decision)["quantity"] = Num(10)
    /\ extracted["material_id"] = Str(<<"pumps">>)
    /\ response.status = 200
    /\ \E i \in 1..Len(response.body.tableData) :
            response.body.tableData[i].StockLevel = Num(50)

\* the comparator forms of the numeric filter
IsLessForm(c) == IsString(c) /\ Includes(LowerSeq(c.s), {"less", "<"})
IsMoreForm(c) == IsString(c) /\ Includes(LowerSeq(c.s), {"more", "greater", ">"})

\* both are present and the quantity parses to an integer
FilterApplies(c, q) == Truthy(c) /\ Truthy(q) /\ ~ParseInt(q).nan

\* the rows whose stock level parses and stands in the comparator's relation
\* to the quantity; none when the comparator has neither form
RowsComparing(rows, c, q) ==
    SelectSeq(rows, LAMBDA item :
        /\ ~ParseInt(item.StockLevel).nan
        /\ \/ IsLessForm(c) /\ ParseInt(item.StockLevel).v < ParseInt(q).v
           \/ ~IsLessForm(c) /\ IsMoreForm(c)
                /\ ParseInt(item.StockLevel).v > ParseInt(q).v)

\* query_inventory ran and its material search gave rows
InventoryMatched ==
    /\ pc = "done"
    /\ toolRun = "query_inventory"
    /\ ~InventoryMatches(build, parameters["material_id"]).threw

\* the table of the matched rows, filtered when the filter applies
InventoryTableOf(rows, c, q) ==
    Json(TablePayload(InventoryColumns,
            IF FilterApplies(c, q) THEN RowsComparing(rows, c, q) ELSE rows))

\* C31: the numeric filter is applied exactly when comparison and quantity
\* are present and the quantity parses; otherwise the matched rows are sent
\* unfiltered, and a comparator of neither form leaves an empty table.
C31_NumericFilter ==
    InventoryMatched =>
        response = InventoryTableOf(
                        InventoryMatches(build, parameters["material_id"]).rows,
                        parameters["comparison"], parameters["quantity"])

\* the name column of a row of the orders table
NameOfRow(tool, row) == IF tool = "get_sales_orders" THEN row.Customer ELSE row.Vendor

\* an orders tool ran its name filter and sent a table
NameFilterRan ==
    /\ pc = "done"
    /\ toolRun \in {"get_sales_orders", "get_purchase_orders"}
    /\ Truthy(parameters[NameParam(toolRun)])
    /\ response.status = 200

\* C32: every order the name filter keeps has a customer (vendor) field that
\* matches the name; none is kept for another field's sake.
C32_NameFilterOnNameField ==
    NameFilterRan =>
        \A i \in 1..Len(response.body.tableData) :
            /\ IsString(parameters[NameParam(toolRun)])
            /\ FieldScore(parameters[NameParam(toolRun)].s,
                          NameOfRow(toolRun, response.body.tableData[i])) <= FuseThreshold

\* the last application of the written store
LastWritten == leaveApplications'.entries[Len(leaveApplications'.entries)]

\* the endpoint answered in this step, with the given status
LeaveAnswered(status) ==
    leaveResponse' # leaveResponse /\ leaveResponse'.status = status

----------------------------------------------------------------------------
(* Properties of the page *)

\* the load effect has run and every queued update is rendered
Settled == initialized /\ pending = <<>>

\* C34: once initialised, and after any new-chat, select, delete, clear-all,
\* rename or pin, the list has a session and activeSessionId names one of
\* the list.
C34_ActiveSessionInList ==
    Settled => sessions # <<>> /\ activeSessionId \in ShownIds

\* the sessions, rendered or still queued, that hold the user message of
\* request r
Latest == Applied(Rendered, pending)
HoldersOf(r) ==
    {i \in 1..Len(Latest.sessions) :
        \E k \in 1..Len(Latest.sessions[i].messages) :
            Latest.sessions[i].messages[k] = Message("user", r)}

\* request r's reply stands after its user message, in the same session
ReplyFollows(r) ==
    \A i \in 1..Len(Latest.sessions) :
        \A k \in 1..Len(Latest.sessions[i].messages) :
            Latest.sessions[i].messages[k] = Message("assistant", r) =>
                /\ Latest.sessions[i].id = requests[r].session
                /\ \E j \in 1..(k - 1) :
                        Latest.sessions[i].messages[j] = Message("user", r)

\* C35: a sent message is in the messages of exactly one session, the one
\* handleSendMessage chose, and a reply to it stands in that session after it.
C35_MessageNeverDropped ==
    \A r \in 1..MaxRequests :
        /\ requests[r].status = "inflight" =>
                /\ Cardinality(HoldersOf(r)) = 1
                /\ \A i \in HoldersOf(r) : Latest.sessions[i].id = requests[r].session
        /\ ReplyFollows(r)

InFlight == {r \in 1..MaxRequests : requests[r].status = "inflight"}

\* only the request of the current controller is in flight: a send has
\* aborted the one before
OnlyLatestInFlight == InFlight \subseteq {abortControllerRef}

\* the indicator shows while a request is in flight
TypingWhileInFlight == Settled /\ InFlight # {} => isBotTyping

\* the continuation of an aborted request queues no message
AbortedAddsNothing ==
    \A r \in 1..MaxRequests :
        requests[r].status = "aborted" =>
            /\ requests'[r].status \in {"aborted", "settled"}
            /\ \A i \in 1..Len(pending') :
                    pending'[i].op = "addMessage" => pending'[i].msg.request # r

\* C36: a send aborts the request in flight before it, an aborted request
\* appends no assistant message, and isBotTyping is true as long as a request
\* is in flight, also after an earlier request was aborted by the send.
C36_AbortAndIndicator ==
    /\ [](OnlyLatestInFlight /\ TypingWhileInFlight)
    /\ [][AbortedAddsNothing]_vars

\* the sessions of the list that have no messages
Empties(list) == {i \in 1..Len(list) : list[i].messages = <<>>}

\* C37: handleNewChat creates no session while the most recent one has no
\* messages, so the list never holds two sessions without messages, also
\* when a request comes before the updates of an earlier one are rendered.
C37_OneEmptySession == Cardinality(Empties(sessions)) <= 1

\* the load effect has queued the saved list and no render has followed
Loading ==
    /\ initialized /\ sessions = <<>> /\ activeSessionId = 0
    /\ pending # <<>> /\ pending[1].op = "setSessions"
LoadedList == pending[1].list

\* the entry is there and holds sessions
EntryKept == chatSessions'.present /\ chatSessions'.value # <<>>

\* C38: from the mount until the loaded sessions are written back the
\* 'chatSessions' entry is neither removed nor emptied, and once they are
\* loaded the entry holds exactly the loaded sessions.
C38_SavedSessionsKept ==
    /\ [][(~initialized /\ chatSessions.present) \/ Loading => EntryKept]_vars
    /\ [][Loading /\ sessions' = LoadedList => chatSessions' = Entry(LoadedList)]_vars

====
